---------------------------- MODULE Spec2Model ----------------------------
(***************************************************************************)
(* State-machine model of the BikeTrax client (custom_components/biketrax):*)
(* the Account cache (devices, positions, trips, subscriptions), the pull  *)
(* refresh cycle of BikeTraxDataUpdateCoordinator._async_update_data, and  *)
(* the websocket supervisor Account.update_task with start() / stop().     *)
(*                                                                         *)
(* asyncio is cooperative: a coroutine runs without interleaving from one  *)
(* await to the next.  Every action below is one such segment (or a part   *)
(* of one; the parts that do not end at an await leave the task at a       *)
(* position where no other coroutine may run, see AtAwait).                *)
(***************************************************************************)
EXTENDS Integers, Sequences, FiniteSets, TLC

\* ------------------------------------------------------------------ bounds
\* Number of device ids the upstream account can own.
NumDevices == 3
\* Number of supervisor tasks start() may create in the lifecycle model.
MaxTasks == 2
\* Cap on the error counter of a supervisor in the lifecycle model.
LifecycleMaxErrors == 1
\* Cap on the error counter of the supervisor in the backoff model.
BackoffMaxErrors == 10
\* Last instant of the discrete clock.
MaxTime == 2
\* Number of stream messages the upstream delivers in one run.
MaxMsgs == 2
\* Number of config entries set up.
NumEntries == 3

DeviceIds == 1..NumDevices
\* Revisions of an upstream record: the one served first and the one served
\* after the record changed upstream.
Revs == {0, 1}
TaskIds == 1..MaxTasks
\* The config entries of the integration.
EntryIds == 1..NumEntries

\* Account._update_task = None
None == 0

VARIABLES
    devices,        \* Account._devices       : bike_id -> models.Device
    positions,      \* Account._positions     : device id -> models.Position
    trips,          \* Account._trips         : device id -> models.Trip
    subscriptions,  \* Account._subscriptions : key -> models.Subscription
    cyc,            \* the running _async_update_data call of each coordinator
    update_task,    \* Account._update_task   : None or a task
    task,           \* the update_task coroutines created so far
    ntasks,         \* number of tasks created by start()
    notified,       \* number of on_update() invocations
    delivered,      \* number of stream messages delivered by the upstream
    now,            \* the clock
    bo,             \* observations of the supervisor's last error and retry
    call,           \* outcome of the Account.start()/stop() call this step made
    msg,            \* the stream message this step read, if it read one
    op,             \* the last call of a mutating method of a Device view
    setup,          \* the async_setup_entry call of each config entry
    rt              \* a record taken through from_dict, to_dict and from_dict

cacheVars == <<devices, positions, trips, subscriptions>>
streamVars == <<update_task, task, ntasks, notified, delivered, now, bo>>
appVars == <<setup, rt>>
vars == <<devices, positions, trips, subscriptions, cyc,
          update_task, task, ntasks, notified, delivered, now, bo, call, msg, op,
          setup, rt>>

\* --------------------------------------------------------------- records
\* The unique id (admin API address) of device d; distinct from every bike_id.
UniqueId(d) == 100 + d

\* models.Device, reduced to the fields client.py and coordinator.py use
\* and the fields from_dict requires.
DeviceRec(d, r) ==
    [bike_id |-> d, unique_id |-> UniqueId(d), position_id |-> 10 * d + r,
     disabled |-> FALSE, guarded |-> FALSE, stolen |-> FALSE, last_update |-> r,
     geofence_ids |-> <<>>, group_id |-> 0]

\* models.Position: id is the position id, device_id the owning device.
PositionRec(d, pid) == [device_id |-> d, id |-> pid]

\* models.Trip of device d.
TripRec(d, r) == [device_id |-> d, rev |-> r]

\* models.Subscription looked up by unique id u.
SubscriptionRec(u, r) == [unique_id |-> u, rev |-> r]

\* dict.__setitem__: m[k] = v
Put(m, k, v) == [x \in (DOMAIN m) \cup {k} |-> IF x = k THEN v ELSE m[x]]

\* The empty dict.
EmptyDict == [x \in {} |-> 0]

\* {device.bike_id: device for device in list}: later elements win.
RECURSIVE DictOfDevices(_)
DictOfDevices(list) ==
    IF list = <<>> THEN EmptyDict
    ELSE LET n == Len(list)
         IN  Put(DictOfDevices(SubSeq(list, 1, n - 1)), list[n].bike_id, list[n])

\* Mutant of AccountUpdateDevices: merges the list into the old mapping.
AccountUpdateDevicesMerging(old, list) ==
    [x \in (DOMAIN old) \cup (DOMAIN DictOfDevices(list)) |->
        IF x \in DOMAIN DictOfDevices(list) THEN DictOfDevices(list)[x] ELSE old[x]]

\* Account.update_devices, after the await: the new value of _devices.
AccountUpdateDevices(old, list) == DictOfDevices(list)

\* Mutant of AccountUpdateDevicesOnError: the mapping is cleared before the
\* fetch and stays empty when the fetch raises.
AccountUpdateDevicesOnErrorCleared(old) == EmptyDict

\* Account.update_devices when get_devices() raises: the assignment to
\* _devices is never reached.
AccountUpdateDevicesOnError(old) == old

\* [Device(self, device.bike_id) for device in self._devices.values()] followed
\* by {d.bike_id: d for d in ...}: the ids of the views, in the dict's
\* insertion order (the order of first occurrence in the list).
RECURSIVE AccountDevices(_)
AccountDevices(list) ==
    IF list = <<>> THEN <<>>
    ELSE LET n == Len(list)
             front == AccountDevices(SubSeq(list, 1, n - 1))
         IN  IF \E i \in 1..Len(front) : front[i] = list[n].bike_id
             THEN front
             ELSE Append(front, list[n].bike_id)

\* ------------------------------------------------- upstream (device-data)
\* The device list the upstream serves: devices 1..k, all at revision r.
ServerList(k, r) == [i \in 1..k |-> DeviceRec(i, r)]
ServerLists == {ServerList(k, r) : k \in 0..NumDevices, r \in Revs}

\* -------------------------------------------------- the refresh cycle
\* The coordinator of the models with one refresh cycle at a time.
CycleIds == {1}

\* The refresh coroutines of the models with concurrent refreshes.
AllCycleIds == {1, 2}

\* pc: where the coroutine waits; todo: the views not yet refreshed, the
\* current one first; arg: the argument the pending fetch was issued with;
\* err: the exception that ended the cycle; cause: the exception err was
\* raised from; fetches: per-device fetches issued; list: the device list
\* get_devices() returned; one: the coroutine is async_update_bt of one
\* view, not _async_update_data.
IdleCycle == [pc |-> "idle", todo |-> <<>>, arg |-> 0, err |-> "none",
              cause |-> "none", fetches |-> 0, list |-> <<>>, one |-> FALSE]

\* What a fetch of the transport raises: a failed request, or a payload
\* that from_dict does not accept.
FetchErrors == {"TransportError", "DecodeError"}

\* Device._device is not None in the mapping devs.
HasDevice(devs, d) == d \in DOMAIN devs

\* The cycle cy moves on to the device at the head of todo: update_position()
\* evaluates self._device.position_id (AttributeError when the mapping devs
\* has no entry, wrapped into UpdateFailed) and issues get_position; with no
\* device left the cycle returns.
BeginDevice(cy, devs, todo) ==
    IF todo = <<>>
    THEN [cy EXCEPT !.pc = "returned", !.todo = <<>>, !.arg = 0]
    ELSE IF HasDevice(devs, Head(todo))
         THEN [cy EXCEPT !.pc = "position", !.todo = todo, !.fetches = @ + 1,
                         !.arg = devs[Head(todo)].position_id]
         ELSE [cy EXCEPT !.pc = "raised", !.todo = todo, !.arg = 0,
                         !.err = "UpdateFailed:position",
                         !.cause = "AttributeError"]

\* No stream message was read in this step.
NoMsg == [kind |-> "none"]

\* No mutating method of a view has been called yet.  pc: where the call
\* waits or how it ended; kind, dev, arg: the method, the view's id and the
\* argument; api, uid: the transport call issued and the id it addresses;
\* ncalls: transport calls issued by the call; err: the exception raised;
\* found: the view's Device entry existed whenever the call read it;
\* payload: the body of the put_device call.
NoPayload == [none |-> TRUE]
NoOp == [pc |-> "idle", kind |-> "none", dev |-> 0, arg |-> FALSE,
         api |-> "none", uid |-> 0, ncalls |-> 0, err |-> "none",
         found |-> TRUE, payload |-> NoPayload]

\* async_setup_entry has not been called for the config entry.  pc: how
\* the call ended; err: the exception the caller got; cause: the exception
\* it was raised from; creds, server: the credentials of the entry and the
\* state of the upstream when it ran.
NoSetup == [pc |-> "idle", err |-> "none", cause |-> "none",
            creds |-> "none", server |-> "none"]

\* No record is being converted.
NoRt == [pc |-> "none"]

\* A task id start() has not used yet.
NoTask == [pc |-> "none", errors |-> 0, on_update |-> None, cancelling |-> FALSE]

Init ==
    /\ devices = EmptyDict
    /\ positions = EmptyDict
    /\ trips = EmptyDict
    /\ subscriptions = EmptyDict
    /\ cyc = [c \in AllCycleIds |-> IdleCycle]
    /\ update_task = None
    /\ task = [t \in TaskIds |-> NoTask]
    /\ ntasks = 0
    /\ notified = 0
    /\ delivered = 0
    /\ now = 0
    /\ bo = [endAt |-> 0, delay |-> 0, attemptAt |-> 0, after |-> "none",
             consec |-> 0, got |-> FALSE]
    /\ call = "none"
    /\ msg = NoMsg
    /\ op = NoOp
    /\ setup = [e \in EntryIds |-> NoSetup]
    /\ rt = NoRt

\* ---------------------------------------------- actions: refresh cycle
\* _async_update_data is entered and awaits client.update_devices(), which
\* awaits traccar_api.get_devices().
CycleStart(c) ==
    /\ cyc[c].pc \in {"idle", "returned", "raised"}
    /\ cyc' = [cyc EXCEPT ![c] = [IdleCycle EXCEPT !.pc = "listing"]]
    /\ call' = "none"
    /\ msg' = NoMsg
    /\ UNCHANGED <<op, appVars>>
    /\ UNCHANGED <<cacheVars, streamVars>>

\* get_devices() returns list: update_devices() replaces _devices, the
\* coordinator snapshots the views and starts on the first one.
GetDevicesReturns(c) ==
    /\ cyc[c].pc = "listing"
    /\ \E list \in ServerLists :
        LET devs == AccountUpdateDevices(devices, list)
        IN  /\ devices' = devs
            /\ cyc' = [cyc EXCEPT ![c] =
                   BeginDevice([@ EXCEPT !.list = list], devs, AccountDevices(list))]
    /\ call' = "none"
    /\ msg' = NoMsg
    /\ UNCHANGED <<op, appVars>>
    /\ UNCHANGED <<positions, trips, subscriptions, streamVars>>

\* get_devices() raises: the error leaves update_devices() and
\* _async_update_data unchanged (no try around the call).
GetDevicesFails(c) ==
    /\ cyc[c].pc = "listing"
    /\ devices' = AccountUpdateDevicesOnError(devices)
    /\ \E e \in FetchErrors :
        cyc' = [cyc EXCEPT ![c] = [@ EXCEPT !.pc = "raised", !.err = e, !.cause = e]]
    /\ call' = "none"
    /\ msg' = NoMsg
    /\ UNCHANGED <<op, appVars>>
    /\ UNCHANGED <<positions, trips, subscriptions, streamVars>>

\* get_position() returns: update_position() stores the Position under the
\* view's id; update_trip() issues get_trip.
GetPositionReturns(c) ==
    /\ cyc[c].pc = "position"
    /\ LET d == Head(cyc[c].todo)
       IN  positions' = Put(positions, d, PositionRec(d, cyc[c].arg))
    /\ cyc' = [cyc EXCEPT ![c] = [@ EXCEPT !.pc = "trip", !.fetches = @ + 1,
                                           !.arg = 0]]
    /\ call' = "none"
    /\ msg' = NoMsg
    /\ UNCHANGED <<op, appVars>>
    /\ UNCHANGED <<devices, trips, subscriptions, streamVars>>

\* get_position() raises: `except Exception` wraps whatever it is into
\* UpdateFailed, the cycle is over.
GetPositionFails(c) ==
    /\ cyc[c].pc = "position"
    /\ \E e \in FetchErrors :
        cyc' = [cyc EXCEPT ![c] = [@ EXCEPT !.pc = "raised", !.arg = 0,
                                           !.err = "UpdateFailed:position",
                                           !.cause = e]]
    /\ call' = "none"
    /\ msg' = NoMsg
    /\ UNCHANGED <<op, appVars>>
    /\ UNCHANGED <<cacheVars, streamVars>>

\* get_trip() returns: update_trip() stores the Trip; update_subscription()
\* evaluates self._device.unique_id and issues get_subscription.
GetTripReturns(c) ==
    /\ cyc[c].pc = "trip"
    /\ LET d == Head(cyc[c].todo)
       IN  /\ trips' = Put(trips, d, TripRec(d, 0))
           /\ cyc' = [cyc EXCEPT ![c] =
                  IF HasDevice(devices, d)
                  THEN [@ EXCEPT !.pc = "subscription", !.fetches = @ + 1,
                                 !.arg = devices[d].unique_id]
                  ELSE [@ EXCEPT !.pc = "raised", !.err = "UpdateFailed:subscription",
                                 !.cause = "AttributeError"]]
    /\ call' = "none"
    /\ msg' = NoMsg
    /\ UNCHANGED <<op, appVars>>
    /\ UNCHANGED <<devices, positions, subscriptions, streamVars>>

\* Mutant of PositionsOnTripError: the Position stored by this refresh of
\* the device is discarded when its trip fetch fails.
PositionsOnTripErrorDiscarded(ps, d) == [x \in DOMAIN ps \ {d} |-> ps[x]]

\* update_trip() raising leaves what update_position() stored: nothing
\* undoes the assignment to _positions.
PositionsOnTripError(ps, d) == ps

\* get_trip() raises.
GetTripFails(c) ==
    /\ cyc[c].pc = "trip"
    /\ \E e \in FetchErrors :
        cyc' = [cyc EXCEPT ![c] = [@ EXCEPT !.pc = "raised", !.arg = 0,
                                           !.err = "UpdateFailed:trip",
                                           !.cause = e]]
    /\ positions' = PositionsOnTripError(positions, Head(cyc[c].todo))
    /\ call' = "none"
    /\ msg' = NoMsg
    /\ UNCHANGED <<op, appVars>>
    /\ UNCHANGED <<devices, trips, subscriptions, streamVars>>

\* Mutant of SubscriptionKey: every view uses one key.
SubscriptionKeyShared(d) == 1

\* The key update_subscription() and _subscription use: self._id.
SubscriptionKey(d) == d

\* get_subscription() returns: update_subscription() stores the Subscription;
\* the coordinator logs bt.is_guarded (AttributeError, not wrapped, when the
\* Device entry is gone) and moves on to the next view; async_update_bt
\* returns.
GetSubscriptionReturns(c) ==
    /\ cyc[c].pc = "subscription"
    /\ LET d == Head(cyc[c].todo)
       IN  /\ subscriptions' = Put(subscriptions, SubscriptionKey(d),
                                   SubscriptionRec(cyc[c].arg, 0))
           /\ cyc' = [cyc EXCEPT ![c] =
                  IF cyc[c].one \/ HasDevice(devices, d)
                  THEN BeginDevice(@, devices, Tail(cyc[c].todo))
                  ELSE [@ EXCEPT !.pc = "raised", !.arg = 0,
                                 !.err = "AttributeError",
                                 !.cause = "AttributeError"]]
    /\ call' = "none"
    /\ msg' = NoMsg
    /\ UNCHANGED <<op, appVars>>
    /\ UNCHANGED <<devices, positions, trips, streamVars>>

\* get_subscription() raises.
GetSubscriptionFails(c) ==
    /\ cyc[c].pc = "subscription"
    /\ \E e \in FetchErrors :
        cyc' = [cyc EXCEPT ![c] = [@ EXCEPT !.pc = "raised", !.arg = 0,
                                           !.err = "UpdateFailed:subscription",
                                           !.cause = e]]
    /\ call' = "none"
    /\ msg' = NoMsg
    /\ UNCHANGED <<op, appVars>>
    /\ UNCHANGED <<cacheVars, streamVars>>

\* The pull refresh alone: one coordinator, no stream.
NextRefresh ==
    \E c \in CycleIds :
        \/ CycleStart(c)
        \/ GetDevicesReturns(c)
        \/ GetDevicesFails(c)
        \/ GetPositionReturns(c)
        \/ GetPositionFails(c)
        \/ GetTripReturns(c)
        \/ GetTripFails(c)
        \/ GetSubscriptionReturns(c)
        \/ GetSubscriptionFails(c)

SpecRefresh == Init /\ [][NextRefresh]_vars

\* ------------------------------------- concurrent per-device refreshes
\* async_update_bt(bt) of the view of id d is entered as coroutine c (one
\* DataUpdateCoordinator per bike, refreshed concurrently by
\* gather_with_concurrency): update_position() issues get_position.  The
\* coroutines running at the same time belong to distinct views.
RefreshOneStart(c, d) ==
    /\ cyc[c].pc \in {"idle", "returned", "raised"}
    /\ \A c2 \in AllCycleIds \ {c} :
           cyc[c2].pc \in {"position", "trip", "subscription"} => Head(cyc[c2].todo) # d
    /\ cyc' = [cyc EXCEPT ![c] = BeginDevice([IdleCycle EXCEPT !.one = TRUE], devices, <<d>>)]
    /\ call' = "none"
    /\ msg' = NoMsg
    /\ UNCHANGED <<op, appVars>>
    /\ UNCHANGED <<cacheVars, streamVars>>

\* The account after update_devices() has returned a device list.
InitCached ==
    /\ devices \in {AccountUpdateDevices(EmptyDict, list) : list \in ServerLists \ {<<>>}}
    /\ positions = EmptyDict
    /\ trips = EmptyDict
    /\ subscriptions = EmptyDict
    /\ cyc = [c \in AllCycleIds |-> IdleCycle]
    /\ update_task = None
    /\ task = [t \in TaskIds |-> NoTask]
    /\ ntasks = 0
    /\ notified = 0
    /\ delivered = 0
    /\ now = 0
    /\ bo = [endAt |-> 0, delay |-> 0, attemptAt |-> 0, after |-> "none",
             consec |-> 0, got |-> FALSE]
    /\ call = "none"
    /\ msg = NoMsg
    /\ op = NoOp
    /\ setup = [e \in EntryIds |-> NoSetup]
    /\ rt = NoRt

\* The per-bike coordinators refreshing their views concurrently.
NextConcurrent ==
    \E c \in AllCycleIds :
        \/ \E d \in DOMAIN devices : RefreshOneStart(c, d)
        \/ GetPositionReturns(c)
        \/ GetPositionFails(c)
        \/ GetTripReturns(c)
        \/ GetTripFails(c)
        \/ GetSubscriptionReturns(c)
        \/ GetSubscriptionFails(c)

SpecConcurrent == InitCached /\ [][NextConcurrent]_vars

\* Two refresh cycles of the account that overlap (a slow cycle is still
\* iterating when the next one starts); every fetch succeeds.
NextOverlap ==
    \E c \in AllCycleIds :
        \/ CycleStart(c)
        \/ GetDevicesReturns(c)
        \/ GetPositionReturns(c)
        \/ GetTripReturns(c)
        \/ GetSubscriptionReturns(c)

SpecOverlap == Init /\ [][NextOverlap]_vars

\* ------------------------------------------- Account.start / Account.stop
\* The values start() is given as on_update: None or a callable.
Callbacks == {None, 1}

\* A supervisor task that can still run: created and not ended, and no
\* cancellation requested.
Live(t) == task[t].pc \in {"created", "connecting", "reading", "handling", "graceful"}
           /\ ~task[t].cancelling

\* Every task is suspended at an await (or not running): only then may
\* another coroutine or a caller of the Account run.
AtAwait == \A t \in TaskIds : task[t].pc \notin {"handling", "graceful"}

\* Mutant of StartCreates: start() creates a task whatever the handle is.
StartCreatesAlways(h) == TRUE

\* start(): `if self._update_task is None`.
StartCreates(h) == h = None

\* start(on_update): creates the task update_task(on_update) and keeps its
\* handle, or does nothing when a handle is held.  maxTasks caps the number
\* of tasks created in one run.
Start(cb, maxTasks) ==
    /\ AtAwait
    /\ IF StartCreates(update_task)
       THEN /\ ntasks < maxTasks
            /\ ntasks' = ntasks + 1
            /\ task' = [task EXCEPT ![ntasks + 1] =
                            [pc |-> "created", errors |-> 0, on_update |-> cb,
                             cancelling |-> FALSE]]
            /\ update_task' = ntasks + 1
            /\ call' = "start:created"
       ELSE /\ call' = "start:noop"
            /\ UNCHANGED <<ntasks, task, update_task>>
    /\ msg' = NoMsg
    /\ UNCHANGED <<cacheVars, cyc, notified, delivered, now, bo, op, appVars>>

\* Mutant of StopCancels: stop() calls cancel() whatever the handle is.
StopCancelsAlways(h) == TRUE

\* stop(): `if self._update_task`.
StopCancels(h) == h # None

\* Mutant of TaskCancel: the handle is dropped without cancelling the task.
TaskCancelDropped(tk, h) == tk

\* Task.cancel() on the task h: a CancelledError is thrown into the coroutine
\* at its await the next time the event loop runs it.
TaskCancel(tk, h) == [tk EXCEPT ![h].cancelling = TRUE]

\* stop(): cancels the task and forgets the handle, or does nothing when no
\* handle is held.
Stop ==
    /\ AtAwait
    /\ IF StopCancels(update_task)
       THEN IF update_task = None
            THEN \* None.cancel()
                 /\ call' = "stop:AttributeError"
                 /\ UNCHANGED <<task, update_task>>
            ELSE /\ task' = TaskCancel(task, update_task)
                 /\ update_task' = None
                 /\ call' = "stop:cancelled"
       ELSE /\ call' = "stop:noop"
            /\ UNCHANGED <<task, update_task>>
    /\ msg' = NoMsg
    /\ UNCHANGED <<cacheVars, cyc, ntasks, notified, delivered, now, bo, op, appVars>>

\* ------------------------------------------------ Account.update_task
\* A new connection attempt is made now, after `cause`.
Attempt(cause) == [bo EXCEPT !.attemptAt = now, !.after = cause, !.got = FALSE]

\* The task may take a step of its own: it exists, no other task is in the
\* middle of a step, and no CancelledError is pending for it.
Runs(t, at) ==
    /\ task[t].pc = at
    /\ ~task[t].cancelling
    /\ \A u \in TaskIds \ {t} : task[u].pc \notin {"handling", "graceful"}

\* First step of the task: errors = 0, the loop is entered and
\* create_socket() starts connecting.
TaskBegin(t) ==
    /\ Runs(t, "created")
    /\ task' = [task EXCEPT ![t].pc = "connecting", ![t].errors = 0]
    /\ bo' = [Attempt("start") EXCEPT !.consec = 0]
    /\ call' = "none"
    /\ msg' = NoMsg
    /\ UNCHANGED <<op, appVars>>
    /\ UNCHANGED <<cacheVars, cyc, update_task, ntasks, notified, delivered, now>>

\* The pending CancelledError is delivered: it is no aiohttp.ClientError, so
\* it leaves update_task and the task ends.
TaskCancelled(t) ==
    /\ task[t].pc \in {"created", "connecting", "reading"}
    /\ task[t].cancelling
    /\ AtAwait
    /\ task' = [task EXCEPT ![t].pc = "cancelled"]
    /\ call' = "none"
    /\ msg' = NoMsg
    /\ UNCHANGED <<op, appVars>>
    /\ UNCHANGED <<cacheVars, cyc, update_task, ntasks, notified, delivered, now, bo>>

\* Mutant of ErrorsOnConnect: an established connection resets the counter.
ErrorsOnConnectReset(errors) == 0

\* Nothing assigns `errors` between entering create_socket() and the first
\* message of the connection.
ErrorsOnConnect(errors) == errors

\* The websocket is connected; the task waits for the first message.
ConnectOk(t) ==
    /\ Runs(t, "connecting")
    /\ task' = [task EXCEPT ![t].pc = "reading", ![t].errors = ErrorsOnConnect(@)]
    /\ call' = "none"
    /\ msg' = NoMsg
    /\ UNCHANGED <<op, appVars>>
    /\ UNCHANGED <<cacheVars, cyc, update_task, ntasks, notified, delivered, now, bo>>

\* Connecting raises aiohttp.ClientError: the except block is entered.
\* cap bounds the number of consecutive errors of one run.
ConnectFails(t, cap) ==
    /\ Runs(t, "connecting")
    /\ task[t].errors < cap
    /\ task' = [task EXCEPT ![t].pc = "handling"]
    /\ bo' = [bo EXCEPT !.endAt = now, !.consec = @ + 1]
    /\ call' = "none"
    /\ msg' = NoMsg
    /\ UNCHANGED <<op, appVars>>
    /\ UNCHANGED <<cacheVars, cyc, update_task, ntasks, notified, delivered, now>>

\* Reading the next message raises aiohttp.ClientError.
StreamFails(t, cap) ==
    /\ Runs(t, "reading")
    /\ task[t].errors < cap
    /\ task' = [task EXCEPT ![t].pc = "handling"]
    /\ bo' = [bo EXCEPT !.endAt = now, !.consec = @ + 1]
    /\ call' = "none"
    /\ msg' = NoMsg
    /\ UNCHANGED <<op, appVars>>
    /\ UNCHANGED <<cacheVars, cyc, update_task, ntasks, notified, delivered, now>>

\* The message iterator ends without error: "terminated gracefully".
StreamEnds(t) ==
    /\ Runs(t, "reading")
    /\ task' = [task EXCEPT ![t].pc = "graceful"]
    /\ bo' = [bo EXCEPT !.endAt = now]
    /\ call' = "none"
    /\ msg' = NoMsg
    /\ UNCHANGED <<op, appVars>>
    /\ UNCHANGED <<cacheVars, cyc, update_task, ntasks, notified, delivered, now>>

\* The iterator raises an exception that is no aiohttp.ClientError (a
\* message that fails to decode): no except clause matches, the exception
\* leaves update_task and the task is done.
StreamRaises(t) ==
    /\ Runs(t, "reading")
    /\ task' = [task EXCEPT ![t].pc = "crashed"]
    /\ call' = "none"
    /\ msg' = NoMsg
    /\ UNCHANGED <<op, appVars>>
    /\ UNCHANGED <<cacheVars, cyc, update_task, ntasks, notified, delivered, now, bo>>

\* Mutant of Merged: `updates` is true for every message.
MergedAlways(m) == TRUE

\* The value of `updates` after the isinstance chain.
Merged(m) == m.kind \in {"Position", "Trip", "Device"}

\* Mutant of ErrorsOnMessage: the counter is kept when a message arrives.
ErrorsOnMessageKept(errors) == errors

\* `errors = 0` at the top of the loop body.
ErrorsOnMessage(errors) == 0

\* Mutant of MergePosition: the first branch also takes a Trip.
MergePositionOrTrip(ps, m) ==
    IF m.kind \in {"Position", "Trip"} THEN Put(ps, m.rec.device_id, m.rec) ELSE ps

\* `if isinstance(update, models.Position)`: stored under update.device_id.
MergePosition(ps, m) ==
    IF m.kind = "Position" THEN Put(ps, m.rec.device_id, m.rec) ELSE ps

\* Mutant of MergeTrip: a Trip is stored only when the key has none yet.
MergeTripKeepFirst(ts, m) ==
    IF m.kind = "Trip" /\ m.rec.device_id \notin DOMAIN ts
    THEN Put(ts, m.rec.device_id, m.rec) ELSE ts

\* `elif isinstance(update, models.Trip)`: stored under update.device_id.
MergeTrip(ts, m) ==
    IF m.kind = "Trip" THEN Put(ts, m.rec.device_id, m.rec) ELSE ts

\* `elif isinstance(update, models.Device)`: stored under update.bike_id.
MergeDevice(ds, m) ==
    IF m.kind = "Device" THEN Put(ds, m.rec.bike_id, m.rec) ELSE ds

\* A message m is read: the counter is reset, m is stored by its kind and
\* on_update is called when m was stored and a callback was given.
Receive(t, m) ==
    /\ Runs(t, "reading")
    /\ delivered < MaxMsgs
    /\ delivered' = delivered + 1
    /\ task' = [task EXCEPT ![t].errors = ErrorsOnMessage(@)]
    /\ positions' = MergePosition(positions, m)
    /\ trips' = MergeTrip(trips, m)
    /\ devices' = MergeDevice(devices, m)
    /\ notified' = IF Merged(m) /\ task[t].on_update # None
                   THEN notified + 1 ELSE notified
    /\ bo' = [bo EXCEPT !.consec = 0, !.got = TRUE]
    /\ call' = "none"
    /\ msg' = m
    /\ UNCHANGED <<op, appVars>>
    /\ UNCHANGED <<subscriptions, cyc, update_task, ntasks, now>>

\* Smaller of two numbers.
Min(a, b) == IF a < b THEN a ELSE b

\* Mutant of Backoff: the square of the counter, without the cap.
BackoffUncapped(errors) == errors * errors

\* min(errors, 8) ** 2
Backoff(errors) == Min(errors, 8) * Min(errors, 8)

\* Mutant of Retries: the supervisor gives up after three errors in a row.
RetriesThrice(errors) == errors < 3

\* The except block has no break, return or raise: the loop goes on.
Retries(errors) == TRUE

\* The except block: with a handle held, errors += 1 and the coroutine
\* asyncio.sleep(min(errors, 8) ** 2) is created but not awaited; the loop
\* then starts the next connection at once.
HandleError(t) ==
    /\ Runs(t, "handling")
    /\ LET e == IF update_task # None THEN task[t].errors + 1 ELSE task[t].errors
       IN  /\ task' = [task EXCEPT ![t].errors = e,
                                   ![t].pc = IF Retries(e) THEN "connecting" ELSE "ended"]
           /\ bo' = IF update_task # None
                    THEN [Attempt("error") EXCEPT !.delay = Backoff(e)]
                    ELSE Attempt("error")
    /\ call' = "none"
    /\ msg' = NoMsg
    /\ UNCHANGED <<op, appVars>>
    /\ UNCHANGED <<cacheVars, cyc, update_task, ntasks, notified, delivered, now>>

\* After the graceful end of the stream the loop starts the next connection.
Reconnect(t) ==
    /\ Runs(t, "graceful")
    /\ task' = [task EXCEPT ![t].pc = "connecting"]
    /\ bo' = Attempt("graceful")
    /\ call' = "none"
    /\ msg' = NoMsg
    /\ UNCHANGED <<op, appVars>>
    /\ UNCHANGED <<cacheVars, cyc, update_task, ntasks, notified, delivered, now>>

\* Time passes while every coroutine is suspended.
Tick ==
    /\ AtAwait
    /\ now < MaxTime
    /\ now' = now + 1
    /\ call' = "none"
    /\ msg' = NoMsg
    /\ UNCHANGED <<op, appVars>>
    /\ UNCHANGED <<cacheVars, cyc, update_task, task, ntasks, notified, delivered, bo>>

\* ---------------------------------------------------- upstream (stream)
\* The messages the stream delivers in the lifecycle and backoff models: one
\* of a kind update_task stores and one of a kind it ignores.
StreamMsgs ==
    { [kind |-> "Position", rec |-> PositionRec(1, 10)],
      [kind |-> "Other", rec |-> [device_id |-> 1]] }

\* ------------------------------------------------------ specifications
\* start(), stop() and the supervisors they create.
NextLifecycle ==
    \/ \E cb \in Callbacks : Start(cb, MaxTasks)
    \/ Stop
    \/ \E t \in TaskIds :
        \/ TaskBegin(t)
        \/ TaskCancelled(t)
        \/ ConnectOk(t)
        \/ ConnectFails(t, LifecycleMaxErrors)
        \/ StreamFails(t, LifecycleMaxErrors)
        \/ StreamEnds(t)
        \/ \E m \in StreamMsgs : Receive(t, m)
        \/ HandleError(t)
        \/ Reconnect(t)

SpecLifecycle == Init /\ [][NextLifecycle]_vars

\* One supervisor over a failing connection, with the clock.
NextBackoff ==
    \/ Start(1, 1)
    \/ Stop
    \/ Tick
    \/ TaskBegin(1)
    \/ TaskCancelled(1)
    \/ ConnectOk(1)
    \/ ConnectFails(1, BackoffMaxErrors)
    \/ StreamFails(1, BackoffMaxErrors)
    \/ StreamEnds(1)
    \/ \E m \in StreamMsgs : Receive(1, m)
    \/ HandleError(1)
    \/ Reconnect(1)

SpecBackoff == Init /\ [][NextBackoff]_vars

\* The event loop runs a task that is ready: a step that does not wait for
\* the upstream is eventually taken.
SpecBackoffLive ==
    /\ Init
    /\ [][NextBackoff]_vars
    /\ WF_vars(HandleError(1))
    /\ WF_vars(Reconnect(1))

\* The messages of the stream model: every kind update_task stores, for two
\* device ids and two revisions, and one kind it ignores.
StreamDeviceIds == {1, 2}
StreamAllMsgs ==
    {[kind |-> "Position", rec |-> PositionRec(d, 10 * d + r)] : d \in StreamDeviceIds, r \in Revs}
    \cup {[kind |-> "Trip", rec |-> TripRec(d, r)] : d \in StreamDeviceIds, r \in Revs}
    \cup {[kind |-> "Device", rec |-> DeviceRec(d, r)] : d \in StreamDeviceIds, r \in Revs}
    \cup {[kind |-> "Other", rec |-> [device_id |-> 1]]}

\* One supervisor reading every kind of message, with a stream that may
\* also raise an error that is no transport error.
NextStream ==
    \/ \E cb \in Callbacks : Start(cb, 1)
    \/ Stop
    \/ TaskBegin(1)
    \/ TaskCancelled(1)
    \/ ConnectOk(1)
    \/ ConnectFails(1, LifecycleMaxErrors)
    \/ StreamFails(1, LifecycleMaxErrors)
    \/ StreamEnds(1)
    \/ StreamRaises(1)
    \/ \E m \in StreamAllMsgs : Receive(1, m)
    \/ HandleError(1)
    \/ Reconnect(1)

SpecStream == Init /\ [][NextStream]_vars

\* ------------------------------------------- pull refresh and stream
\* An update_position() of the view of id d waits for its response.
PullInFlight(d) ==
    \E c \in AllCycleIds : cyc[c].pc = "position" /\ Head(cyc[c].todo) = d

\* The stream delivers a Position of a device while an update_position() of
\* that device is in flight.  The upstream sends the positions of a device in
\* the order of their ids: never one older than the one it sent before.
StreamPositionDuringPull(t, m) ==
    /\ m.kind = "Position"
    /\ PullInFlight(m.rec.device_id)
    /\ m.rec.device_id \in DOMAIN positions =>
           m.rec.id >= positions[m.rec.device_id].id
    /\ Receive(t, m)

\* One supervisor reading Position messages while the views of a cached
\* device list are refreshed by pull, one view at a time.
NextPullAndStream ==
    \/ Start(1, 1)
    \/ TaskBegin(1)
    \/ ConnectOk(1)
    \/ \E m \in StreamAllMsgs : StreamPositionDuringPull(1, m)
    \/ \E d \in DOMAIN devices : RefreshOneStart(1, d)
    \/ GetPositionReturns(1)
    \/ GetTripReturns(1)
    \/ GetSubscriptionReturns(1)

SpecPullAndStream == InitCached /\ [][NextPullAndStream]_vars

\* --------------------------------------------- Device.to_dict / from_dict
\* datetime.isoformat(): the text of a timestamp.
IsoFormat(t) == [iso |-> t]

\* from_datetime: dateutil.parser.parse of a text.
FromDatetime(x) == x.iso

\* The result of a from_dict whose assert failed.
DecodeFailed == [error |-> "AssertionError"]

\* Mutant of DeviceToDict: the identifier is written under "id".
DeviceToDictWithId(rec) ==
    [attributes |-> [guarded |-> rec.guarded, stolen |-> rec.stolen],
     disabled |-> rec.disabled,
     geofenceIds |-> rec.geofence_ids,
     groupId |-> rec.group_id,
     id |-> rec.bike_id,
     lastUpdate |-> IsoFormat(rec.last_update),
     positionId |-> rec.position_id,
     uniqueId |-> rec.unique_id]

\* models.Device.to_dict, for the fields of DeviceRec: the identifier is
\* written under the key "bike_id".
DeviceToDict(rec) ==
    [attributes |-> [guarded |-> rec.guarded, stolen |-> rec.stolen],
     disabled |-> rec.disabled,
     geofenceIds |-> rec.geofence_ids,
     groupId |-> rec.group_id,
     bike_id |-> rec.bike_id,
     lastUpdate |-> IsoFormat(rec.last_update),
     positionId |-> rec.position_id,
     uniqueId |-> rec.unique_id]

\* The result of a from_dict whose dateutil.parser.parse got None.
DecodeTypeError == [error |-> "TypeError"]

\* models.Device.from_dict: obj.get(key) of an absent key is None, and the
\* fields are read in the order attributes, disabled, geofenceIds, groupId,
\* id, lastUpdate, positionId, uniqueId.  DeviceAttributes.from_dict(None),
\* from_list(None) and from_int(None) fail their assert; from_datetime(None)
\* raises TypeError; "disabled" and "uniqueId" have defaults.  The
\* identifier is read from the key "id".
DeviceFromDict(obj) ==
    IF ~({"attributes", "geofenceIds", "groupId", "id"} \subseteq DOMAIN obj)
    THEN DecodeFailed
    ELSE IF "lastUpdate" \notin DOMAIN obj THEN DecodeTypeError
    ELSE IF "positionId" \notin DOMAIN obj THEN DecodeFailed
    ELSE [bike_id |-> obj.id,
          unique_id |-> IF "uniqueId" \in DOMAIN obj THEN obj.uniqueId ELSE 0,
          position_id |-> obj.positionId,
          disabled |-> IF "disabled" \in DOMAIN obj THEN obj.disabled ELSE FALSE,
          guarded |-> obj.attributes.guarded,
          stolen |-> obj.attributes.stolen,
          last_update |-> FromDatetime(obj.lastUpdate),
          geofence_ids |-> obj.geofenceIds,
          group_id |-> obj.groupId]

\* --------------------------------- Device.set_guarded / set_stolen / ...
\* No call of a mutating method is waiting for the transport.
OpFree == op.pc \notin {"admin", "put"}

\* The call ended with the exception e; found tells whether the Device
\* entry existed when the call read it.
OpRaised(o, e, found) == [o EXCEPT !.pc = "raised", !.err = e, !.found = found]

\* Mutant of GuardedAfter: the flag follows the argument.
GuardedAfterRequested(g) == g

\* `self._device.attributes.guarded = True`
GuardedAfter(g) == TRUE

\* Mutant of DevicesOnAdminError: the flag was set before the call and is
\* not taken back when the call raises.
DevicesOnAdminErrorOptimistic(devs, d) ==
    IF d \in DOMAIN devs THEN [devs EXCEPT ![d].guarded = TRUE] ELSE devs

\* set_guarded when post_arm / post_disarm raises: the assignment after the
\* await is not reached.
DevicesOnAdminError(devs, d) == devs

\* set_guarded(g) on the view of id d: self._device.unique_id is evaluated
\* (AttributeError on None) and post_arm or post_disarm is issued.
SetGuardedCall(d, g) ==
    /\ AtAwait
    /\ OpFree
    /\ LET o == [NoOp EXCEPT !.kind = "set_guarded", !.dev = d, !.arg = g]
       IN  op' = IF HasDevice(devices, d)
                 THEN [o EXCEPT !.pc = "admin",
                                !.api = IF g THEN "post_arm" ELSE "post_disarm",
                                !.uid = devices[d].unique_id,
                                !.ncalls = 1]
                 ELSE OpRaised(o, "AttributeError", FALSE)
    /\ call' = "none"
    /\ msg' = NoMsg
    /\ UNCHANGED <<cacheVars, cyc, streamVars, appVars>>

\* post_arm / post_disarm returns: the guarded flag of the entry _devices
\* holds now is set in place (AttributeError when the entry is gone).
AdminReturns ==
    /\ AtAwait
    /\ op.pc = "admin"
    /\ IF HasDevice(devices, op.dev)
       THEN /\ devices' = [devices EXCEPT ![op.dev].guarded = GuardedAfter(op.arg)]
            /\ op' = [op EXCEPT !.pc = "returned"]
       ELSE /\ devices' = devices
            /\ op' = OpRaised(op, "AttributeError", FALSE)
    /\ call' = "none"
    /\ msg' = NoMsg
    /\ UNCHANGED <<positions, trips, subscriptions, cyc, streamVars, appVars>>

\* post_arm / post_disarm raises: the error leaves set_guarded as it is.
AdminFails ==
    /\ AtAwait
    /\ op.pc = "admin"
    /\ devices' = DevicesOnAdminError(devices, op.dev)
    /\ op' = OpRaised(op, "TransportError", TRUE)
    /\ call' = "none"
    /\ msg' = NoMsg
    /\ UNCHANGED <<positions, trips, subscriptions, cyc, streamVars, appVars>>

\* `models.Device.from_dict(self._device.to_dict())` on the view of id d:
\* the clone, or the exception raised (AttributeError on None,
\* AssertionError when from_dict fails).
Clone(d) ==
    IF ~HasDevice(devices, d) THEN [error |-> "AttributeError"]
    ELSE DeviceFromDict(DeviceToDict(devices[d]))

\* The first statements of set_stolen and set_tracking_enabled for the
\* call o on the view of id d: the entry is cloned and, with the clone
\* changed to payload, put_device(self._id, clone) is issued.
CloneAndPut(o, d, payload) ==
    IF "error" \in DOMAIN Clone(d)
    THEN OpRaised(o, Clone(d).error, HasDevice(devices, d))
    ELSE [o EXCEPT !.pc = "put", !.api = "put_device", !.uid = d,
                   !.ncalls = 1, !.payload = payload]

\* Mutant of DevicesBeforeResponse: the attribute is set on the cached
\* record when the method is called.
DevicesBeforeResponseOptimistic(devs, d, attr, val) ==
    IF d \in DOMAIN devs THEN [devs EXCEPT ![d][attr] = val] ELSE devs

\* set_stolen and set_tracking_enabled assign the attribute on the clone,
\* a new object built by from_dict: _devices is as before until the result
\* of put_device is assigned.
DevicesBeforeResponse(devs, d, attr, val) == devs

\* set_stolen(stolen) on the view of id d.
SetStolenCall(d, stolen) ==
    /\ AtAwait
    /\ OpFree
    /\ LET o == [NoOp EXCEPT !.kind = "set_stolen", !.dev = d, !.arg = stolen]
       IN  op' = CloneAndPut(o, d, [Clone(d) EXCEPT !.stolen = stolen])
    /\ devices' = DevicesBeforeResponse(devices, d, "stolen", stolen)
    /\ call' = "none"
    /\ msg' = NoMsg
    /\ UNCHANGED <<positions, trips, subscriptions, cyc, streamVars, appVars>>

\* set_tracking_enabled(tracking_enabled) on the view of id d.
SetTrackingEnabledCall(d, tracking_enabled) ==
    /\ AtAwait
    /\ OpFree
    /\ LET o == [NoOp EXCEPT !.kind = "set_tracking_enabled", !.dev = d,
                             !.arg = tracking_enabled]
       IN  op' = CloneAndPut(o, d, [Clone(d) EXCEPT !.disabled = ~tracking_enabled])
    /\ devices' = DevicesBeforeResponse(devices, d, "disabled", ~tracking_enabled)
    /\ call' = "none"
    /\ msg' = NoMsg
    /\ UNCHANGED <<positions, trips, subscriptions, cyc, streamVars, appVars>>

\* put_device returns the record rec: it replaces the entry of the view.
PutDeviceReturns(rec) ==
    /\ AtAwait
    /\ op.pc = "put"
    /\ devices' = Put(devices, op.dev, rec)
    /\ op' = [op EXCEPT !.pc = "returned"]
    /\ call' = "none"
    /\ msg' = NoMsg
    /\ UNCHANGED <<positions, trips, subscriptions, cyc, streamVars, appVars>>

\* put_device raises (the transport fails or the response does not decode):
\* the assignment to _devices[self._id] is not reached.
PutDeviceFails(e) ==
    /\ AtAwait
    /\ op.pc = "put"
    /\ op' = OpRaised(op, e, TRUE)
    /\ call' = "none"
    /\ msg' = NoMsg
    /\ UNCHANGED <<cacheVars, cyc, streamVars, appVars>>

\* The views the application calls mutating methods on.
ViewIds == {1, 2}

\* The mutating methods of the views beside the pull refresh that fills
\* the cache (its per-device fetches all succeed here).  Every call of set_stolen and set_tracking_enabled ends in
\* CloneAndPut, so no put_device is ever pending and PutDeviceReturns /
\* PutDeviceFails are no steps of this system.
NextMutate ==
    \/ \E c \in CycleIds :
        \/ CycleStart(c)
        \/ GetDevicesReturns(c)
        \/ GetDevicesFails(c)
        \/ GetPositionReturns(c)
        \/ GetTripReturns(c)
        \/ GetSubscriptionReturns(c)
    \/ \E d \in ViewIds, g \in BOOLEAN : SetGuardedCall(d, g)
    \/ AdminReturns
    \/ AdminFails
    \/ \E d \in ViewIds, b \in BOOLEAN : SetStolenCall(d, b)
    \/ \E d \in ViewIds, b \in BOOLEAN : SetTrackingEnabledCall(d, b)

SpecMutate == Init /\ [][NextMutate]_vars

\* ------------------------------------------------- the view's accessors
\* What reading a property of a view gives: a value, None, or an exception.
Value(v) == [kind |-> "value", val |-> v]
NoValue == [kind |-> "none"]
Raises(e) == [kind |-> "raises", err |-> e]

\* A property that reads the attribute attr of self._device: _device is
\* _devices.get(self._id), and an attribute of None is an AttributeError.
\* An attribute that is no field of DeviceRec stands for itself.
OfDevice(d, attr) ==
    IF HasDevice(devices, d)
    THEN Value(IF attr \in DOMAIN devices[d] THEN devices[d][attr] ELSE attr)
    ELSE Raises("AttributeError")

\* Device.is_tracking_enabled: `not self._device.disabled`
IsTrackingEnabled(d) ==
    IF HasDevice(devices, d) THEN Value(~devices[d].disabled)
    ELSE Raises("AttributeError")

\* A property of the form `self._position.x if self._position else None`.
OfPosition(d) ==
    IF d \in DOMAIN positions THEN Value(positions[d].id) ELSE NoValue

\* Device.trip: self._trip, that is _trips.get(self._id).
OfTrip(d) ==
    IF d \in DOMAIN trips THEN Value(trips[d]) ELSE NoValue

\* Device.subscription_until: _subscriptions.get(self._id) and its trial_end.
OfSubscription(d) ==
    IF SubscriptionKey(d) \in DOMAIN subscriptions
    THEN Value(subscriptions[SubscriptionKey(d)].rev)
    ELSE NoValue

\* Device.is_deleted: `self._id in self._device`; neither a models.Device
\* nor None supports `in`, so the expression raises TypeError.
IsDeleted(d) == Raises("TypeError")

\* The per-device properties of the view of id d, by their names; the
\* position properties all have the form of OfPosition.
Accessors(d) ==
    [latitude |-> OfPosition(d),
     battery_level |-> OfPosition(d),
     total_distance |-> OfPosition(d),
     trip |-> OfTrip(d),
     subscription_until |-> OfSubscription(d),
     status |-> OfDevice(d, "status"),
     last_updated |-> OfDevice(d, "last_update"),
     is_deleted |-> IsDeleted(d),
     is_guarded |-> OfDevice(d, "guarded"),
     is_stolen |-> OfDevice(d, "stolen"),
     is_tracking_enabled |-> IsTrackingEnabled(d),
     is_alarm_triggered |-> OfDevice(d, "alarm")]

\* ------------------------------------------ models.py: from_dict / to_dict
\* A Python value: its type t and its content v.  Texts, numbers and
\* timestamps are numbered; a bool is 0 or 1; a dict or a dataclass instance
\* has t "dict" or the class name and as v the mapping of its keys or fields.
Val(t, v) == [t |-> t, v |-> v]

\* None: also what obj.get(key) gives for an absent key.
NoneVal == Val("none", 0)

\* The default "Unknown": a text that is no number.
Unknown == Val("str", 0)

\* The default False.
False == Val("bool", 0)

\* An assert of a helper failed, or a call raised.
Failed == Val("error", 0)

\* One field of a record class: from_dict reads rkey (with default def)
\* through the reader rd (of class cls when nested), to_dict writes wkey
\* through the writer wr.
Field(f, rkey, rd, cls, def, wkey, wr) ==
    [f |-> f, rkey |-> rkey, rd |-> rd, cls |-> cls, def |-> def,
     wkey |-> wkey, wr |-> wr]

\* models.Passport: for each field the key from_dict reads with its reader and
\* default, and the key to_dict writes with its writer.
PassportSchema ==
    { Field("bike_pictures", "bikePictures", "from_list", "", NoneVal,
          "bikePictures", "from_list"),
      Field("bike_type", "bikeType", "from_str", "", Unknown,
          "bikeType", "from_str"),
      Field("colour", "colour", "from_str", "", Unknown,
          "colour", "from_str"),
      Field("engine", "engine", "from_str", "", Unknown,
          "engine", "from_str"),
      Field("frame_number", "frameNumber", "from_str", "", Unknown,
          "frameNumber", "from_str"),
      Field("insurance", "insurance", "from_bool", "", False,
          "insurance", "from_bool"),
      Field("manufacturer", "manufacturer", "from_str", "", Unknown,
          "manufacturer", "from_str"),
      Field("model", "model", "from_str", "", Unknown,
          "model", "from_str"),
      Field("price", "price", "int_from_str", "", Unknown,
          "price", "str"),
      Field("receipt_pictures", "receiptPictures", "from_list", "", Unknown,
          "receiptPictures", "from_list") }

\* models.DeviceAttributes: for each field the key from_dict reads with its reader and
\* default, and the key to_dict writes with its writer.
DeviceAttributesSchema ==
    { Field("alarm", "alarm", "from_bool", "", NoneVal,
          "alarm", "from_bool"),
      Field("auto_guard", "autoGuard", "from_bool", "", NoneVal,
          "autoGuard", "from_bool"),
      Field("geofence_radius", "geofenceRadius", "from_int", "", NoneVal,
          "geofenceRadius", "from_int"),
      Field("guarded", "guarded", "from_bool", "", NoneVal,
          "guarded", "from_bool"),
      Field("guard_type", "guardType", "from_str", "", NoneVal,
          "guardType", "from_str"),
      Field("last_alarm", "lastAlarm", "from_int", "", NoneVal,
          "lastAlarm", "from_int"),
      Field("passport", "passport", "from_dict", "Passport", NoneVal,
          "passport", "to_class"),
      Field("trial_end", "trialEnd", "from_datetime", "", NoneVal,
          "trialEnd", "isoformat"),
      Field("stolen", "stolen", "from_union_bool", "", NoneVal,
          "stolen", "from_union_bool") }

\* models.Device: for each field the key from_dict reads with its reader and
\* default, and the key to_dict writes with its writer.
DeviceSchema ==
    { Field("attributes", "attributes", "from_dict", "DeviceAttributes", NoneVal,
          "attributes", "to_class"),
      Field("category", "category", "from_str", "", Unknown,
          "category", "from_str"),
      Field("contact", "contact", "from_str", "", Unknown,
          "contact", "from_str"),
      Field("disabled", "disabled", "from_bool", "", False,
          "disabled", "from_bool"),
      Field("geofence_ids", "geofenceIds", "from_list", "", NoneVal,
          "geofenceIds", "from_list"),
      Field("group_id", "groupId", "from_int", "", NoneVal,
          "groupId", "from_int"),
      Field("bike_id", "id", "from_int", "", NoneVal,
          "bike_id", "from_int"),
      Field("last_update", "lastUpdate", "from_datetime", "", NoneVal,
          "lastUpdate", "isoformat"),
      Field("model", "model", "from_str", "", Unknown,
          "model", "from_str"),
      Field("name", "name", "from_str", "", Unknown,
          "name", "from_str"),
      Field("phone", "phone", "from_str", "", Unknown,
          "phone", "from_str"),
      Field("position_id", "positionId", "from_int", "", NoneVal,
          "positionId", "from_int"),
      Field("status", "status", "from_str", "", Unknown,
          "status", "from_str"),
      Field("unique_id", "uniqueId", "from_str", "", Unknown,
          "uniqueId", "from_str") }

\* models.PositionAttributes: for each field the key from_dict reads with its reader and
\* default, and the key to_dict writes with its writer.
PositionAttributesSchema ==
    { Field("battery_level", "batteryLevel", "from_int", "", NoneVal,
          "batteryLevel", "from_int"),
      Field("charge", "charge", "from_bool", "", NoneVal,
          "charge", "from_bool"),
      Field("distance", "distance", "from_float", "", NoneVal,
          "distance", "to_float"),
      Field("hours", "hours", "from_int", "", NoneVal,
          "hours", "from_int"),
      Field("ignition", "ignition", "from_bool", "", NoneVal,
          "ignition", "from_bool"),
      Field("motion", "motion", "from_bool", "", NoneVal,
          "motion", "from_bool"),
      Field("status", "status", "from_int", "", NoneVal,
          "status", "from_int"),
      Field("total_distance", "totalDistance", "from_float", "", NoneVal,
          "totalDistance", "to_float"),
      Field("alarm", "alarm", "from_union_str", "", NoneVal,
          "alarm", "from_union_str"),
      Field("armed", "armed", "from_union_bool", "", NoneVal,
          "armed", "from_union_bool"),
      Field("index", "index", "from_union_int", "", NoneVal,
          "index", "from_union_int") }

\* models.Position: for each field the key from_dict reads with its reader and
\* default, and the key to_dict writes with its writer.
PositionSchema ==
    { Field("accuracy", "accuracy", "from_float", "", NoneVal,
          "accuracy", "to_float"),
      Field("address", "address", "from_none", "", NoneVal,
          "address", "from_none"),
      Field("altitude", "altitude", "from_float", "", NoneVal,
          "altitude", "to_float"),
      Field("attributes", "attributes", "from_dict", "PositionAttributes", NoneVal,
          "attributes", "to_class"),
      Field("course", "course", "from_float", "", NoneVal,
          "course", "to_float"),
      Field("device_id", "deviceId", "from_int", "", NoneVal,
          "deviceId", "from_int"),
      Field("device_time", "deviceTime", "from_datetime", "", NoneVal,
          "deviceTime", "isoformat"),
      Field("fix_time", "fixTime", "from_datetime", "", NoneVal,
          "fixTime", "isoformat"),
      Field("bike_id", "id", "from_int", "", NoneVal,
          "bike_id", "from_int"),
      Field("latitude", "latitude", "from_float", "", NoneVal,
          "latitude", "to_float"),
      Field("longitude", "longitude", "from_float", "", NoneVal,
          "longitude", "to_float"),
      Field("network", "network", "from_none", "", NoneVal,
          "network", "from_none"),
      Field("outdated", "outdated", "from_bool", "", NoneVal,
          "outdated", "from_bool"),
      Field("protocol", "protocol", "from_str", "", NoneVal,
          "protocol", "from_str"),
      Field("server_time", "serverTime", "from_datetime", "", NoneVal,
          "serverTime", "isoformat"),
      Field("speed", "speed", "from_float", "", NoneVal,
          "speed", "to_float"),
      Field("type", "type", "from_none", "", NoneVal,
          "type", "from_none"),
      Field("valid", "valid", "from_bool", "", NoneVal,
          "valid", "from_bool") }

\* models.SessionAttributes: for each field the key from_dict reads with its reader and
\* default, and the key to_dict writes with its writer.
SessionAttributesSchema ==
    { Field("app_environment", "appEnvironment", "from_str", "", NoneVal,
          "appEnvironment", "from_str"),
      Field("app_package", "appPackage", "from_str", "", NoneVal,
          "appPackage", "from_str"),
      Field("app_version", "appVersion", "from_str", "", NoneVal,
          "appVersion", "from_str"),
      Field("fcm_tokens", "fcmTokens", "from_list", "", NoneVal,
          "fcmTokens", "from_list"),
      Field("locale", "locale", "from_str", "", NoneVal,
          "locale", "from_str"),
      Field("send_analytics", "sendAnalytics", "from_bool", "", NoneVal,
          "sendAnalytics", "from_bool") }

\* models.Session: for each field the key from_dict reads with its reader and
\* default, and the key to_dict writes with its writer.
SessionSchema ==
    { Field("administrator", "administrator", "from_bool", "", NoneVal,
          "administrator", "from_bool"),
      Field("attributes", "attributes", "from_dict", "SessionAttributes", NoneVal,
          "attributes", "to_class"),
      Field("coordinate_format", "coordinateFormat", "from_none", "", NoneVal,
          "coordinateFormat", "from_none"),
      Field("device_limit", "deviceLimit", "from_int", "", NoneVal,
          "deviceLimit", "from_int"),
      Field("device_readonly", "deviceReadonly", "from_bool", "", NoneVal,
          "deviceReadonly", "from_bool"),
      Field("disabled", "disabled", "from_bool", "", NoneVal,
          "disabled", "from_bool"),
      Field("email", "email", "from_str", "", NoneVal,
          "email", "from_str"),
      Field("expiration_time", "expirationTime", "from_none", "", NoneVal,
          "expirationTime", "from_none"),
      Field("bike_id", "id", "from_int", "", NoneVal,
          "bike_id", "from_int"),
      Field("latitude", "latitude", "from_float", "", NoneVal,
          "latitude", "to_float"),
      Field("limit_commands", "limitCommands", "from_bool", "", NoneVal,
          "limitCommands", "from_bool"),
      Field("login", "login", "from_none", "", NoneVal,
          "login", "from_none"),
      Field("longitude", "longitude", "from_float", "", NoneVal,
          "longitude", "to_float"),
      Field("bike_map", "map", "from_none", "", NoneVal,
          "map", "from_none"),
      Field("name", "name", "from_str", "", NoneVal,
          "name", "from_str"),
      Field("password", "password", "from_none", "", NoneVal,
          "password", "from_none"),
      Field("phone", "phone", "from_none", "", NoneVal,
          "phone", "from_none"),
      Field("poi_layer", "poiLayer", "from_none", "", NoneVal,
          "poiLayer", "from_none"),
      Field("readonly", "readonly", "from_bool", "", NoneVal,
          "readonly", "from_bool"),
      Field("token", "token", "from_str", "", NoneVal,
          "token", "from_str"),
      Field("twelve_hour_format", "twelveHourFormat", "from_bool", "", NoneVal,
          "twelveHourFormat", "from_bool"),
      Field("user_limit", "userLimit", "from_int", "", NoneVal,
          "userLimit", "from_int"),
      Field("zoom", "zoom", "from_int", "", NoneVal,
          "zoom", "from_int") }

\* models.Subscription: for each field the key from_dict reads with its reader and
\* default, and the key to_dict writes with its writer.
SubscriptionSchema ==
    { Field("category", "category", "from_str", "", NoneVal,
          "category", "from_str"),
      Field("created_at", "createdAt", "from_datetime", "", NoneVal,
          "createdAt", "isoformat"),
      Field("bike_id", "id", "from_int", "", NoneVal,
          "bike_id", "from_int"),
      Field("setup_fee", "setupFee", "from_none", "", NoneVal,
          "setupFee", "from_none"),
      Field("subscription_id", "subscriptionId", "from_str", "", Unknown,
          "subscriptionId", "from_none"),
      Field("trial_duration", "trialDuration", "from_int", "", NoneVal,
          "trialDuration", "from_int"),
      Field("trial_end", "trialEnd", "from_datetime", "", NoneVal,
          "trialEnd", "isoformat"),
      Field("unique_id", "uniqueId", "from_str", "", NoneVal,
          "uniqueId", "from_str"),
      Field("updated_at", "updatedAt", "from_datetime", "", NoneVal,
          "updatedAt", "isoformat") }

\* models.Trip: for each field the key from_dict reads with its reader and
\* default, and the key to_dict writes with its writer.
TripSchema ==
    { Field("average_speed", "averageSpeed", "from_float", "", NoneVal,
          "averageSpeed", "to_float"),
      Field("device_id", "deviceId", "from_int", "", NoneVal,
          "deviceId", "from_int"),
      Field("device_name", "deviceName", "from_str", "", NoneVal,
          "deviceName", "from_str"),
      Field("distance", "distance", "from_float", "", NoneVal,
          "distance", "to_float"),
      Field("driver_name", "driverName", "from_none", "", NoneVal,
          "driverName", "from_none"),
      Field("driver_unique_id", "driverUniqueId", "from_none", "", NoneVal,
          "driverUniqueId", "from_none"),
      Field("duration", "duration", "from_int", "", NoneVal,
          "duration", "from_int"),
      Field("end_address", "endAddress", "from_none", "", NoneVal,
          "endAddress", "from_none"),
      Field("end_lat", "endLat", "from_float", "", NoneVal,
          "endLat", "to_float"),
      Field("end_lon", "endLon", "from_float", "", NoneVal,
          "endLon", "to_float"),
      Field("end_odometer", "endOdometer", "from_float", "", NoneVal,
          "endOdometer", "to_float"),
      Field("end_position_id", "endPositionId", "from_int", "", NoneVal,
          "endPositionId", "from_int"),
      Field("end_time", "endTime", "from_datetime", "", NoneVal,
          "endTime", "isoformat"),
      Field("max_speed", "maxSpeed", "from_float", "", NoneVal,
          "maxSpeed", "to_float"),
      Field("spent_fuel", "spentFuel", "from_float", "", NoneVal,
          "spentFuel", "to_float"),
      Field("start_address", "startAddress", "from_none", "", NoneVal,
          "startAddress", "from_none"),
      Field("start_lat", "startLat", "from_float", "", NoneVal,
          "startLat", "to_float"),
      Field("start_lon", "startLon", "from_float", "", NoneVal,
          "startLon", "to_float"),
      Field("start_odometer", "startOdometer", "from_float", "", NoneVal,
          "startOdometer", "to_float"),
      Field("start_position_id", "startPositionId", "from_int", "", NoneVal,
          "startPositionId", "from_int"),
      Field("start_time", "startTime", "from_datetime", "", NoneVal,
          "startTime", "isoformat") }

\* The record classes of models.py.
RecordTypes == {"Passport", "DeviceAttributes", "Device", "PositionAttributes",
                "Position", "SessionAttributes", "Session", "Subscription", "Trip"}

Schema(T) ==
    CASE T = "Passport" -> PassportSchema
      [] T = "DeviceAttributes" -> DeviceAttributesSchema
      [] T = "Device" -> DeviceSchema
      [] T = "PositionAttributes" -> PositionAttributesSchema
      [] T = "Position" -> PositionSchema
      [] T = "SessionAttributes" -> SessionAttributesSchema
      [] T = "Session" -> SessionSchema
      [] T = "Subscription" -> SubscriptionSchema
      [] T = "Trip" -> TripSchema

\* from_int, from_str, from_bool, from_none, from_list: `assert isinstance`.
FromType(ty, x) == IF x.t = ty THEN x ELSE Failed

\* from_union([from_<ty>, from_none], x)
FromUnion(ty, x) == IF x.t \in {ty, "none"} THEN x ELSE Failed

\* from_float: a float or an int, returned as float(x).
FromFloat(x) == IF x.t \in {"float", "int"} THEN Val("float", x.v) ELSE Failed

\* to_float: `assert isinstance(x, float)`.
ToFloat(x) == IF x.t = "float" THEN x ELSE Failed

\* from_datetime of a typed value: dateutil.parser.parse of a text that
\* holds a timestamp; anything else raises.
ParseDatetime(x) == IF x.t = "str" /\ x.v # 0 THEN Val("datetime", x.v) ELSE Failed

\* x.isoformat(): the text of a datetime.
IsoFormatOf(x) == IF x.t = "datetime" THEN Val("str", x.v) ELSE Failed

\* int(from_str(x)): the number a text of digits holds.
IntFromStr(x) == IF x.t = "str" /\ x.v # 0 THEN Val("int", x.v) ELSE Failed

\* from_str(str(x)): the text of a number.
StrOf(x) == Val("str", x.v)

RECURSIVE FromDict(_, _)
\* <Class>.from_dict(obj) for a typed value obj: every field is read
\* through its reader; the first failing assert fails the call.
FromDict(T, obj) ==
    IF obj.t # "dict" THEN Failed
    ELSE LET entry(f) == CHOOSE e \in Schema(T) : e.f = f
             get(e) == IF e.rkey \in DOMAIN obj.v THEN obj.v[e.rkey] ELSE e.def
             read(e) ==
                 CASE e.rd \in {"from_int", "from_str", "from_bool", "from_none", "from_list"}
                          -> FromType(IF e.rd = "from_int" THEN "int"
                                      ELSE IF e.rd = "from_str" THEN "str"
                                      ELSE IF e.rd = "from_bool" THEN "bool"
                                      ELSE IF e.rd = "from_none" THEN "none"
                                      ELSE "list", get(e))
                   [] e.rd = "from_union_bool" -> FromUnion("bool", get(e))
                   [] e.rd = "from_union_str" -> FromUnion("str", get(e))
                   [] e.rd = "from_union_int" -> FromUnion("int", get(e))
                   [] e.rd = "from_float" -> FromFloat(get(e))
                   [] e.rd = "from_datetime" -> ParseDatetime(get(e))
                   [] e.rd = "int_from_str" -> IntFromStr(get(e))
                   [] e.rd = "from_dict" -> FromDict(e.cls, get(e))
             fields == [f \in {e.f : e \in Schema(T)} |-> read(entry(f))]
         IN  IF \E f \in DOMAIN fields : fields[f].t = "error" THEN Failed
             ELSE Val(T, fields)

\* The attribute to_dict reads for the field e of class T: the field
\* itself, except in Position.to_dict, which reads self.bike_type for the
\* key "type" while the dataclass names the field `type`.
WriteAttr(T, e) ==
    IF T = "Position" /\ e.f = "type" THEN "bike_type" ELSE e.f

RECURSIVE ToDict(_, _)
\* to_class(<Class>, x) / x.to_dict(): every field is written through its
\* writer under its key; the first failing assert fails the call, and so
\* does reading an attribute the instance does not have (AttributeError).
ToDict(T, x) ==
    IF x.t # T THEN Failed
    ELSE IF \E e \in Schema(T) : WriteAttr(T, e) \notin DOMAIN x.v THEN Failed
    ELSE LET entry(k) == CHOOSE e \in Schema(T) : e.wkey = k
             write(e) ==
                 CASE e.wr \in {"from_int", "from_str", "from_bool", "from_none", "from_list"}
                          -> FromType(IF e.wr = "from_int" THEN "int"
                                      ELSE IF e.wr = "from_str" THEN "str"
                                      ELSE IF e.wr = "from_bool" THEN "bool"
                                      ELSE IF e.wr = "from_none" THEN "none"
                                      ELSE "list", x.v[WriteAttr(T, e)])
                   [] e.wr = "from_union_bool" -> FromUnion("bool", x.v[WriteAttr(T, e)])
                   [] e.wr = "from_union_str" -> FromUnion("str", x.v[WriteAttr(T, e)])
                   [] e.wr = "from_union_int" -> FromUnion("int", x.v[WriteAttr(T, e)])
                   [] e.wr = "to_float" -> ToFloat(x.v[WriteAttr(T, e)])
                   [] e.wr = "isoformat" -> IsoFormatOf(x.v[WriteAttr(T, e)])
                   [] e.wr = "str" -> StrOf(x.v[WriteAttr(T, e)])
                   [] e.wr = "to_class" -> ToDict(e.cls, x.v[WriteAttr(T, e)])
             keys == [k \in {e.wkey : e \in Schema(T)} |-> write(entry(k))]
         IN  IF \E k \in DOMAIN keys : keys[k].t = "error" THEN Failed
             ELSE Val("dict", keys)

\* The numbers the values of an input are built from.
Seeds == {1, 2}

RECURSIVE InputDict(_, _, _, _)
\* A payload for class T as the server sends it: every key from_dict reads
\* holds a value of the type its reader expects, built from the number n.
\* alt picks the other accepted type where a reader accepts two (an int for
\* a float, null for an optional value); with opt false the keys that have a
\* default are left out of the top-level object.
InputDict(T, n, alt, opt) ==
    LET entry(k) == CHOOSE e \in Schema(T) : e.rkey = k
        value(e) ==
            CASE e.rd = "from_int" -> Val("int", n)
              [] e.rd = "from_str" -> Val("str", n)
              [] e.rd = "from_bool" -> Val("bool", n % 2)
              [] e.rd = "from_none" -> NoneVal
              [] e.rd = "from_list" -> Val("list", n)
              [] e.rd = "from_union_bool" -> IF alt THEN NoneVal ELSE Val("bool", n % 2)
              [] e.rd = "from_union_str" -> IF alt THEN NoneVal ELSE Val("str", n)
              [] e.rd = "from_union_int" -> IF alt THEN NoneVal ELSE Val("int", n)
              [] e.rd = "from_float" -> IF alt THEN Val("int", n) ELSE Val("float", n)
              [] e.rd = "from_datetime" -> Val("str", n)
              [] e.rd = "int_from_str" -> Val("str", n)
              [] e.rd = "from_dict" -> InputDict(e.cls, n, alt, TRUE)
        keys == {e.rkey : e \in {x \in Schema(T) : opt \/ x.def = NoneVal}}
    IN  Val("dict", [k \in keys |-> value(entry(k))])

\* A payload is chosen for a record class.
RtStart(T, n, alt, opt) ==
    /\ rt.pc \in {"none", "invalid", "raised", "redecoded"}
    /\ rt' = [pc |-> "input", type |-> T, input |-> InputDict(T, n, alt, opt)]
    /\ UNCHANGED <<cacheVars, cyc, streamVars, call, msg, op, setup>>

\* r = T.from_dict(input); an input from_dict rejects is not valid.
RtFromDict ==
    /\ rt.pc = "input"
    /\ LET r == FromDict(rt.type, rt.input)
       IN  rt' = IF r.t = "error"
                 THEN [pc |-> "invalid", type |-> rt.type, input |-> rt.input]
                 ELSE [pc |-> "decoded", type |-> rt.type, input |-> rt.input, rec |-> r]
    /\ UNCHANGED <<cacheVars, cyc, streamVars, call, msg, op, setup>>

\* d = r.to_dict()
RtToDict ==
    /\ rt.pc = "decoded"
    /\ LET d == ToDict(rt.type, rt.rec)
       IN  rt' = IF d.t = "error"
                 THEN [pc |-> "raised", type |-> rt.type, input |-> rt.input,
                       rec |-> rt.rec, at |-> "to_dict"]
                 ELSE [pc |-> "encoded", type |-> rt.type, input |-> rt.input,
                       rec |-> rt.rec, dict |-> d]
    /\ UNCHANGED <<cacheVars, cyc, streamVars, call, msg, op, setup>>

\* T.from_dict(d)
RtFromDictAgain ==
    /\ rt.pc = "encoded"
    /\ LET r == FromDict(rt.type, rt.dict)
       IN  rt' = IF r.t = "error"
                 THEN [pc |-> "raised", type |-> rt.type, input |-> rt.input,
                       rec |-> rt.rec, at |-> "from_dict"]
                 ELSE [pc |-> "redecoded", type |-> rt.type, input |-> rt.input,
                       rec |-> rt.rec, dict |-> rt.dict, back |-> r]
    /\ UNCHANGED <<cacheVars, cyc, streamVars, call, msg, op, setup>>

\* Records of every class taken through from_dict, to_dict and from_dict.
NextRoundTrip ==
    \/ \E T \in RecordTypes, n \in Seeds, alt \in BOOLEAN, opt \in BOOLEAN :
           RtStart(T, n, alt, opt)
    \/ RtFromDict
    \/ RtToDict
    \/ RtFromDictAgain

SpecRoundTrip == Init /\ [][NextRoundTrip]_vars

\* ------------------------------------------------------ async_setup_entry
\* `await Account(username, password, session=websession)`: the constructor
\* returns an Account, which is no awaitable, so the await raises TypeError.
AwaitAccount == "TypeError"

\* What `await client.update_devices()` raises at setup: the credentials
\* are checked by the first request, the upstream may be unreachable.
SetupUpdateDevices(creds, server) ==
    IF server = "down" THEN "TransportError"
    ELSE IF creds = "invalid" THEN "AuthError"
    ELSE "none"

\* The body of the try of async_setup_entry: the first exception raised,
\* or "none".  (`bike.id` of the views is reached only after both awaits.)
SetupTry(creds, server) ==
    IF AwaitAccount # "none" THEN AwaitAccount
    ELSE SetupUpdateDevices(creds, server)

\* `except Exception as err: raise ConfigEntryAuthFailed(...) from err`
SetupExcept(cause) == "ConfigEntryAuthFailed"

\* async_setup_entry of config entry e, with the entry's credentials and
\* the upstream as they are when it runs.
AsyncSetupEntry(e, creds, server) ==
    /\ setup[e].pc \in {"idle", "raised"}
    /\ LET cause == SetupTry(creds, server)
       IN  setup' = [setup EXCEPT ![e] =
               IF cause = "none"
               THEN [pc |-> "done", err |-> "none", cause |-> "none",
                     creds |-> creds, server |-> server]
               ELSE [pc |-> "raised", err |-> SetupExcept(cause), cause |-> cause,
                     creds |-> creds, server |-> server]]
    /\ UNCHANGED <<cacheVars, cyc, streamVars, call, msg, op, rt>>

\* The config entries being set up, and set up again after a failure.
NextSetup ==
    \E e \in EntryIds, creds \in {"valid", "invalid"}, server \in {"up", "down"} :
        AsyncSetupEntry(e, creds, server)

SpecSetup == Init /\ [][NextSetup]_vars

\* ------------------------------------------------ claims: pull refresh
\* The bike ids of a device list.
IdsOf(list) == {list[i].bike_id : i \in 1..Len(list)}

\* This step is the successful return of update_devices() in cycle c.
UpdateDevicesReturned(c) ==
    /\ cyc[c].pc = "listing"
    /\ cyc'[c].pc # "listing"
    /\ ~(cyc'[c].pc = "raised" /\ cyc'[c].err \in FetchErrors)

\* This step is update_devices() of cycle c raising the transport's error.
UpdateDevicesRaised(c) ==
    /\ cyc[c].pc = "listing"
    /\ cyc'[c].pc = "raised"
    /\ cyc'[c].err \in FetchErrors

\* C1: when update_devices() returns with a list that no longer contains a
\* previously cached device id d, the Device, Position, Trip and Subscription
\* mappings hold no entry for d afterwards.
C1_OrphanCleanup ==
    [][\A c \in CycleIds :
        UpdateDevicesReturned(c) =>
            \A d \in (DOMAIN devices) \ IdsOf(cyc'[c].list) :
                /\ d \notin DOMAIN devices'
                /\ d \notin DOMAIN positions'
                /\ d \notin DOMAIN trips'
                /\ SubscriptionKey(d) \notin DOMAIN subscriptions'
                /\ UniqueId(d) \notin DOMAIN subscriptions']_vars

\* C2: when update_devices() returns, the keys of the Device mapping are
\* exactly the ids of the returned list, each key maps to the returned record
\* of that id, and the devices enumeration has exactly one view per key.
C2_DevicesEqualList ==
    [][\A c \in CycleIds :
        UpdateDevicesReturned(c) =>
            LET list == cyc'[c].list
                views == AccountDevices(list)
            IN  /\ DOMAIN devices' = IdsOf(list)
                /\ \A i \in 1..Len(list) : devices'[list[i].bike_id] = list[i]
                /\ {views[i] : i \in 1..Len(views)} = DOMAIN devices'
                /\ Len(views) = Cardinality(DOMAIN devices')
                /\ cyc'[c].todo = views]_vars

\* Witness of C2: a refresh that shrank the device set and changed a record
\* has returned, and the cycle is at its first view.
C2_Witness ==
    /\ cyc[1].pc = "position"
    /\ Len(cyc[1].list) = 2
    /\ cyc[1].list[1].last_update = 1
    /\ devices = DictOfDevices(cyc[1].list)
    /\ 3 \in DOMAIN positions

\* C3: when the device-list fetch fails the error reaches the caller, the
\* four mappings are what they were, and the cycle issues no per-device fetch.
C3_ListFailureAllOrNothing ==
    [][\A c \in CycleIds :
        /\ UpdateDevicesRaised(c) => UNCHANGED cacheVars
        /\ (cyc'[c].pc = "raised" /\ cyc'[c].err \in FetchErrors) =>
               (cyc'[c].fetches = 0 /\ cyc'[c].todo = <<>>)]_vars

\* Witness of C3: a device-list fetch has failed over a populated cache.
C3_Witness ==
    /\ cyc[1].pc = "raised"
    /\ cyc[1].err = "TransportError"
    /\ DOMAIN devices = DeviceIds
    /\ DOMAIN positions = DeviceIds
    /\ DOMAIN trips = DeviceIds
    /\ DOMAIN subscriptions # {}

\* ------------------------------------------------ claims: start / stop
\* The supervisor tasks that can still run.
LiveTasks == {t \in TaskIds : Live(t)}

\* The outcomes of a start() call and of a stop() call.
StartOutcomes == {"start:created", "start:noop"}
StopOutcomes == {"stop:cancelled", "stop:noop", "stop:AttributeError"}

\* stop() has returned for task t: t was created and its handle is dropped.
Stopped(t) == t <= ntasks /\ update_task # t

\* C4: start() while a handle is held creates no task and leaves the handle,
\* the running task and its callback as they were; at most one supervisor
\* that can still run exists at any time.
C4_StartIdempotent ==
    [][/\ (call' \in StartOutcomes /\ update_task # None) =>
              /\ call' = "start:noop"
              /\ UNCHANGED <<update_task, task, ntasks>>
       /\ Cardinality(LiveTasks') <= 1]_vars

\* Witness of C4: start() was called on an Account whose supervisor is
\* connected, and did nothing.
C4_Witness ==
    /\ call = "start:noop"
    /\ update_task = 1
    /\ ntasks = 1
    /\ task[1].pc = "reading"
    /\ task[1].on_update = 1

\* C5: once stop() has returned for a supervisor, that supervisor starts no
\* connection, stores no message and calls no callback: its only step left
\* is to end, and that step changes neither the cache nor the counters.
C5_StopSilences ==
    [][\A t \in TaskIds :
        Stopped(t) =>
            /\ task'[t].pc \in {task[t].pc, "cancelled"}
            /\ task'[t].errors = task[t].errors
            /\ (task'[t] # task[t]) => UNCHANGED <<cacheVars, notified, delivered, bo>>]_vars

\* Witness of C5: a supervisor that had stored a message and then counted a
\* transport error was stopped and has ended.
C5_Witness ==
    /\ update_task = None
    /\ task[1].pc = "cancelled"
    /\ task[1].errors = 1
    /\ 1 \in DOMAIN positions
    /\ ntasks = 1

\* C6: stop() never raises, leaves no handle and leaves the cache alone; with
\* no handle held it changes nothing at all.
C6_StopIdempotent ==
    [][call' \in StopOutcomes =>
          /\ call' # "stop:AttributeError"
          /\ update_task' = None
          /\ UNCHANGED cacheVars
          /\ (update_task = None) =>
                 /\ call' = "stop:noop"
                 /\ UNCHANGED <<task, ntasks, notified, delivered, bo, cyc>>]_vars

\* Witness of C6: a stop() that found no handle, made after the stop() that
\* cancelled the supervisor and before that supervisor ended.
C6_Witness ==
    /\ call = "stop:noop"
    /\ update_task = None
    /\ ntasks = 1
    /\ task[1].cancelling
    /\ task[1].pc = "reading"

\* ---------------------------------------------------- claims: backoff
\* The delays the sequence 1, 4, 9, ..., 64, 64, ... names for the k-th error.
ExpectedDelay(k) == IF k <= 8 THEN <<1, 4, 9, 16, 25, 36, 49, 64>>[k] ELSE 64

\* C7: after the k-th consecutive transport error of a running supervisor
\* the delay computed is min(k, 8)^2: 1, 4, 9, ..., 49, 64, 64, ..., never
\* more than 64.
C7_BackoffSequence ==
    (bo.consec >= 1 /\ task[1].pc # "handling") =>
        /\ bo.delay = ExpectedDelay(bo.consec)
        /\ bo.delay <= 64
        /\ task[1].errors = bo.consec

\* Witness of C7: the tenth consecutive error has been handled.
C7_Witness ==
    /\ bo.consec = 10
    /\ bo.delay = 64
    /\ task[1].pc = "connecting"
    /\ update_task = 1

\* C8: after a transport error no connection attempt is made before the
\* computed delay has elapsed.
C8_DelayBlocksRetry ==
    bo.after = "error" => bo.attemptAt - bo.endAt >= bo.delay

\* C9 as claimed: at the connection attempt that follows a graceful
\* termination the error counter is zero, and the attempt is made at once.
C9_GracefulResetsCounter ==
    (bo.after = "graceful" /\ task[1].pc = "connecting") =>
        /\ task[1].errors = 0
        /\ bo.attemptAt = bo.endAt

\* C9 as amended: a graceful termination is followed by a connection attempt
\* at once and leaves the error counter as it was: zero when the terminated
\* connection delivered a message, else the value it had before.
C9_GracefulKeepsCounter ==
    [][/\ (task[1].pc = "reading" /\ task'[1].pc = "graceful") =>
              /\ task'[1].errors = task[1].errors
              /\ bo.got => task[1].errors = 0
       /\ (task[1].pc = "graceful" /\ task'[1] # task[1]) =>
              /\ task'[1].pc = "connecting"
              /\ task'[1].errors = task[1].errors
              /\ bo'.after = "graceful"
              /\ bo'.attemptAt = bo.endAt
              /\ now' = now]_vars

\* Witness of C9: a connection that delivered nothing ended gracefully and
\* the next attempt is under way with a positive error counter.
C9_Witness ==
    /\ bo.after = "graceful"
    /\ task[1].pc = "connecting"
    /\ task[1].errors = 2
    /\ update_task = 1

\* C10: every transport error and every graceful termination is followed by
\* a new connection attempt, however many errors came before.
C10_AlwaysReconnects ==
    (task[1].pc \in {"handling", "graceful"}) ~> (task[1].pc = "connecting")

\* Witness of C10: the supervisor reconnects after its tenth error in a row.
C10_Witness ==
    /\ task[1].pc = "connecting"
    /\ bo.after = "error"
    /\ bo.consec = 10
    /\ task[1].errors = 10

\* ----------------------------------------------------- claims: stream
\* The mapping after is the mapping before with exactly the entry at key k
\* replaced by (or created as) v.
ReplacedAt(before, after, k, v) ==
    /\ DOMAIN after = (DOMAIN before) \cup {k}
    /\ after[k] = v
    /\ \A x \in (DOMAIN before) \ {k} : after[x] = before[x]

\* C11: an error that is no transport error, raised while a stream message
\* is read or processed, does not end the supervisor.
C11_NonTransportErrorSkipped ==
    \A t \in TaskIds : task[t].pc # "crashed"

\* C12: a stream message changes exactly the entry at its device id in the
\* mapping of its kind (Position, Trip, Device), whether or not the Device
\* mapping knows that id; a message of another kind changes nothing.
C12_DispatchByKind ==
    [][msg' # NoMsg =>
          /\ subscriptions' = subscriptions
          /\ IF msg'.kind = "Position"
             THEN ReplacedAt(positions, positions', msg'.rec.device_id, msg'.rec)
             ELSE positions' = positions
          /\ IF msg'.kind = "Trip"
             THEN ReplacedAt(trips, trips', msg'.rec.device_id, msg'.rec)
             ELSE trips' = trips
          /\ IF msg'.kind = "Device"
             THEN ReplacedAt(devices, devices', msg'.rec.bike_id, msg'.rec)
             ELSE devices' = devices]_vars

\* Witness of C12: a Trip was just stored for a device the Device mapping
\* does not hold, beside a Position of another device.
C12_Witness ==
    /\ msg.kind = "Trip"
    /\ msg.rec.device_id = 2
    /\ trips[2] = msg.rec
    /\ 2 \notin DOMAIN devices
    /\ 1 \in DOMAIN positions

\* C13: with a callback given, the callback is called once in the step that
\* stores a Position, Trip or Device message, and in no other step: not for
\* a message of another kind, a disconnect or a reconnect.
C13_CallbackPerMergedMessage ==
    [][/\ (msg' # NoMsg /\ task[1].on_update # None) =>
              notified' = notified +
                  (IF msg'.kind \in {"Position", "Trip", "Device"} THEN 1 ELSE 0)
       /\ (msg' = NoMsg \/ task[1].on_update = None) => notified' = notified]_vars

\* Witness of C13: of two messages read, one was stored and notified and
\* the last one was of another kind.
C13_Witness ==
    /\ msg.kind = "Other"
    /\ delivered = 2
    /\ notified = 1
    /\ task[1].on_update = 1

\* This step is the supervisor's handling of a disconnect: the transport
\* error or the graceful end is noticed, or the handler runs.
DisconnectStep(t) ==
    \/ task[t].pc \in {"connecting", "reading"} /\ task'[t].pc \in {"handling", "graceful"}
    \/ task[t].pc \in {"handling", "graceful"} /\ task'[t] # task[t]

\* C14: handling a transport error or a graceful termination changes none
\* of the four mappings, calls no callback and raises nothing: the
\* supervisor goes on to the next connection.
C14_DisconnectInvisible ==
    [][DisconnectStep(1) =>
          /\ UNCHANGED <<cacheVars, notified, op, cyc>>
          /\ task'[1].pc \in {"handling", "graceful", "connecting"}
          /\ call' = "none"]_vars

\* Witness of C14: the supervisor reconnects after a transport error with a
\* cached Position still readable.
C14_Witness ==
    /\ bo.after = "error"
    /\ task[1].pc = "connecting"
    /\ task[1].errors = 3
    /\ 1 \in DOMAIN positions
    /\ notified = 1

\* ------------------------------------------- claims: mutating operations
\* This step issues the transport call of a mutating method.
OpIssued == op' # op /\ op'.pc \in {"admin", "put"}

\* This step ends a call of a mutating method with an exception.
OpFailed == op' # op /\ op'.pc = "raised"

\* C15: set_guarded(g) on a cached device issues exactly one admin call,
\* post_arm when g is true and post_disarm when g is false, addressed by
\* the unique id of the device; when the call returns, the cached guarded
\* flag of the device is true for both values of g, the rest of the entry
\* and the other mappings are as before and no further call is issued.
C15_SetGuarded ==
    [][/\ (OpIssued /\ op'.kind = "set_guarded") =>
              /\ op'.ncalls = 1
              /\ op'.api = (IF op'.arg THEN "post_arm" ELSE "post_disarm")
              /\ op'.uid = devices[op'.dev].unique_id
              /\ UNCHANGED cacheVars
       /\ (op.pc = "admin" /\ op'.pc = "returned") =>
              /\ devices' = [devices EXCEPT ![op.dev].guarded = TRUE]
              /\ op'.ncalls = 1
              /\ UNCHANGED <<positions, trips, subscriptions>>]_vars

\* Witness of C15: set_guarded(False) has returned after one post_disarm
\* and the cached flag of the device is true.
C15_Witness ==
    /\ op.pc = "returned"
    /\ op.kind = "set_guarded"
    /\ op.arg = FALSE
    /\ op.api = "post_disarm"
    /\ op.uid = UniqueId(op.dev)
    /\ HasDevice(devices, op.dev)
    /\ devices[op.dev].guarded

\* C16: a call of set_stolen or set_tracking_enabled that found its device
\* in the cache has issued exactly one put_device.
C16_CloneMutateWrite ==
    (op.kind \in {"set_stolen", "set_tracking_enabled"} /\ op.found) =>
        /\ op.ncalls = 1
        /\ op.api = "put_device"

\* C17: a step in which a mutating method that found its device ends with
\* an exception changes none of the mappings, and a failure of the
\* transport call reaches the caller as the transport's error.
C17_FailureLeavesCache ==
    [][(OpFailed /\ op'.found) =>
          /\ UNCHANGED cacheVars
          /\ op.pc \in {"admin", "put"} => op'.err = "TransportError"]_vars

\* Witness of C17: post_arm of set_guarded(True) failed and the cached
\* device is still not guarded.
C17_Witness ==
    /\ op.pc = "raised"
    /\ op.kind = "set_guarded"
    /\ op.arg
    /\ op.err = "TransportError"
    /\ op.ncalls = 1
    /\ HasDevice(devices, op.dev)
    /\ ~devices[op.dev].guarded

\* C18: a mutating method that found no entry for its id in the Device
\* mapping ended with NotFoundError.
C18_MissingDeviceNotFound ==
    (op.pc = "raised" /\ ~op.found) => op.err = "NotFoundError"

\* ------------------------------------------------------ claims: accessors
\* C19: for every id in the Device mapping whose Position, Trip or
\* Subscription entry is missing, no per-device accessor of the view raises.
C19_AccessorsNeverRaise ==
    \A d \in DOMAIN devices :
        (d \notin DOMAIN positions \/ d \notin DOMAIN trips
            \/ d \notin DOMAIN subscriptions) =>
            \A a \in DOMAIN Accessors(d) : Accessors(d)[a].kind # "raises"

\* C20: every entry of the Subscription mapping is stored under the unique
\* id of the device it belongs to, and subscription_until reads it there.
C20_SubscriptionKeyedByUniqueId ==
    /\ \A k \in DOMAIN subscriptions : k = subscriptions[k].unique_id
    /\ \A d \in DOMAIN devices :
           OfSubscription(d) # NoValue => devices[d].unique_id \in DOMAIN subscriptions

\* ---------------------------------------- claims: partial refresh, decode
\* The record of device d in the list cycle c fetched.
Listed(c, d) == CHOOSE r \in {cyc[c].list[i] : i \in DOMAIN cyc[c].list} : r.bike_id = d

\* C21: the refresh of one device keeps partial progress.  The step that
\* stores the fetched Position changes nothing else, and the step in which
\* the trip fetch then fails changes no mapping: the Position mapping holds
\* the Position fetched in this cycle and the Trip and Subscription entries
\* of the device are the earlier ones.
C21_PartialRefreshKept ==
    [][\A c \in CycleIds :
        /\ (cyc[c].pc = "position" /\ cyc'[c].pc = "trip") =>
               /\ positions' = Put(positions, Head(cyc[c].todo),
                                   PositionRec(Head(cyc[c].todo), cyc[c].arg))
               /\ UNCHANGED <<devices, trips, subscriptions>>
        /\ (cyc[c].pc = "trip" /\ cyc'[c].pc = "raised") =>
               /\ UNCHANGED cacheVars
               /\ cyc'[c].err = "UpdateFailed:trip"
               /\ LET d == Head(cyc[c].todo)
                  IN  positions'[d] = PositionRec(d, Listed(c, d).position_id)]_vars

\* Witness of C21: in a later cycle the trip fetch of device 1 failed
\* after its Position of the new revision was stored; the Trip and the
\* Subscription of the earlier cycle are still there.
C21_Witness ==
    /\ cyc[1].pc = "raised"
    /\ cyc[1].err = "UpdateFailed:trip"
    /\ Head(cyc[1].todo) = 1
    /\ positions[1] = PositionRec(1, 11)
    /\ 1 \in DOMAIN trips
    /\ 1 \in DOMAIN subscriptions

\* C22: a per-device fetch whose payload does not decode does not end the
\* cycle.
C22_DecodeErrorSkipped ==
    \A c \in CycleIds :
        ~(/\ cyc[c].pc = "raised"
          /\ cyc[c].cause = "DecodeError"
          /\ cyc[c].err \in {"UpdateFailed:position", "UpdateFailed:trip",
                              "UpdateFailed:subscription"})

\* ------------------------------------------ claims: concurrent refreshes
\* The entry of key k differs between the mappings before and after.
EntryChanged(before, after, k) ==
    \/ (k \in DOMAIN before) # (k \in DOMAIN after)
    \/ k \in DOMAIN before /\ k \in DOMAIN after /\ before[k] # after[k]

\* Coroutine c is refreshing the view of id k and its fetch at pc returns
\* in this step: the coroutine moves on, to its next fetch, to its end, or
\* to the AttributeError its next statement raises when the Device entry is
\* gone (bare, or wrapped into UpdateFailed by the coordinator).  A fetch
\* that fails ends the coroutine with a cause that is a fetch error.
OwnFetchReturns(c, k, pc) ==
    /\ cyc[c].pc = pc
    /\ cyc'[c] # cyc[c]
    /\ cyc'[c].pc = "raised" => cyc'[c].cause = "AttributeError"
    /\ Head(cyc[c].todo) = k

\* C23: with refreshes of distinct devices running concurrently, the
\* Position, Trip or Subscription entry of a device id changes only in the
\* step in which a fetch of that device's own refresh returns, and it
\* becomes the record that fetch returned.
C23_NoCrossCorruption ==
    [][\A k \in DeviceIds :
        /\ EntryChanged(positions, positions', k) =>
               \E c \in AllCycleIds :
                   /\ OwnFetchReturns(c, k, "position")
                   /\ positions'[k] = PositionRec(k, cyc[c].arg)
        /\ EntryChanged(trips, trips', k) =>
               \E c \in AllCycleIds :
                   /\ OwnFetchReturns(c, k, "trip")
                   /\ trips'[k] = TripRec(k, 0)
        /\ EntryChanged(subscriptions, subscriptions', k) =>
               \E c \in AllCycleIds :
                   /\ OwnFetchReturns(c, k, "subscription")
                   /\ subscriptions'[k] = SubscriptionRec(cyc[c].arg, 0)]_vars

\* Witness of C23: the refreshes of devices 2 and 1 are both under way and
\* each has stored records of its own device.
C23_Witness ==
    /\ cyc[1].one /\ cyc[1].pc = "subscription" /\ Head(cyc[1].todo) = 2
    /\ cyc[2].one /\ cyc[2].pc = "trip" /\ Head(cyc[2].todo) = 1
    /\ positions[1].device_id = 1
    /\ positions[2].device_id = 2
    /\ trips[2].device_id = 2
    /\ 1 \notin DOMAIN trips

\* ------------------------------------------------ claims: snapshot entries
\* C24: an entry of a mapping changes only by being replaced with a record
\* decoded from a pull response (the device list, or a fetch of the view)
\* or from a stream message; no step changes a field of a stored record.
C24_WholesaleReplacement ==
    [][\A k \in DeviceIds :
        /\ EntryChanged(devices, devices', k) =>
               \/ \E c \in AllCycleIds :
                      /\ cyc[c].pc = "listing"
                      /\ devices' = DictOfDevices(cyc'[c].list)
               \/ msg'.kind = "Device" /\ devices'[k] = msg'.rec
        /\ EntryChanged(positions, positions', k) =>
               \/ \E c \in AllCycleIds : OwnFetchReturns(c, k, "position")
               \/ msg'.kind = "Position" /\ positions'[k] = msg'.rec
        /\ EntryChanged(trips, trips', k) =>
               \/ \E c \in AllCycleIds : OwnFetchReturns(c, k, "trip")
               \/ msg'.kind = "Trip" /\ trips'[k] = msg'.rec
        /\ EntryChanged(subscriptions, subscriptions', k) =>
               \E c \in AllCycleIds : OwnFetchReturns(c, k, "subscription")]_vars

\* ------------------------------------------------------ claims: round trip
\* C25: for a record r decoded from a valid input, of any record class,
\* to_dict(r) succeeds, from_dict(to_dict(r)) succeeds and the result
\* equals r.
C25_RoundTrip ==
    /\ rt.pc # "raised"
    /\ rt.pc = "redecoded" => rt.back = rt.rec

\* ---------------------------------------------------------- claims: setup
\* C26: a setup that failed for another reason than invalid credentials is
\* not reported as the authentication failure.
C26_SetupErrorKinds ==
    \A e \in EntryIds :
        (setup[e].pc = "raised" /\ setup[e].cause # "AuthError") =>
            setup[e].err # "ConfigEntryAuthFailed"

\* --------------------------------------------- claims: the error counter
\* C27: the error counter of the supervisor goes down only in a step that
\* reads a message, and then to zero; establishing a connection leaves it
\* as it is, and handling the failure of a running supervisor adds one, so
\* rounds of connecting and failing without a message count up.
C27_ResetOnlyOnMessage ==
    [][/\ task'[1].errors < task[1].errors =>
              /\ task[1].pc = "reading"
              /\ msg' # NoMsg
              /\ task'[1].errors = 0
       /\ (task[1].pc = "connecting" /\ task'[1].pc = "reading") =>
              task'[1].errors = task[1].errors
       /\ (task[1].pc = "handling" /\ task'[1].pc = "connecting"
               /\ update_task # None) =>
              task'[1].errors = task[1].errors + 1]_vars

\* Witness of C27: after three failures the supervisor is connected again,
\* no message has arrived and the counter is three.
C27_Witness ==
    /\ task[1].pc = "reading"
    /\ bo.after = "error"
    /\ ~bo.got
    /\ bo.consec = 3
    /\ task[1].errors = 3
    /\ delivered = 0

\* ------------------------------------------------- claims: arrival order
\* The entry the message m is stored in holds the record of m.
StoredIn(ps, ts, ds, m) ==
    CASE m.kind = "Position" -> m.rec.device_id \in DOMAIN ps /\ ps[m.rec.device_id] = m.rec
      [] m.kind = "Trip" -> m.rec.device_id \in DOMAIN ts /\ ts[m.rec.device_id] = m.rec
      [] m.kind = "Device" -> m.rec.bike_id \in DOMAIN ds /\ ds[m.rec.bike_id] = m.rec
      [] OTHER -> TRUE

\* C28: messages are merged one at a time, in arrival order.  The step that
\* reads a message reads one, and at its end the message is stored under its
\* key and the callback has run; a step that reads none changes no mapping.
\* With the stream as the only writer every entry is therefore the record
\* of the last message that arrived for its key.
C28_OneAtATime ==
    [][/\ delivered' # delivered =>
              /\ delivered' = delivered + 1
              /\ msg' # NoMsg
              /\ StoredIn(positions', trips', devices', msg')
              /\ (Merged(msg') /\ task[1].on_update # None) => notified' = notified + 1
       /\ delivered' = delivered =>
              /\ msg' = NoMsg
              /\ UNCHANGED <<cacheVars, notified>>]_vars

\* Witness of C28: two Trip messages for device 1 have arrived, both were
\* stored and notified, and the entry is the record of the second.
C28_Witness ==
    /\ delivered = 2
    /\ notified = 2
    /\ msg.kind = "Trip"
    /\ msg.rec = TripRec(1, 0)
    /\ DOMAIN trips = {1}
    /\ trips[1] = TripRec(1, 0)
    /\ positions = EmptyDict
    /\ devices = EmptyDict

\* ------------------------------------------ claims: no optimistic update
\* C29: set_stolen and set_tracking_enabled change nothing in the cache
\* before the response of the server is there: the step that calls the
\* method and the step in which the call fails leave the four mappings as
\* they are.  The clone raises in the step of the call (C16), so no call
\* ever waits for a response (C33_PutNeverPending) and the interval the
\* claim is about, a pending write beside a reader, is never entered: this
\* holds of the raising call only.
C29_NoOptimisticUpdate ==
    [][(op' # op /\ op'.kind \in {"set_stolen", "set_tracking_enabled"}
            /\ op'.pc # "returned") =>
          UNCHANGED cacheVars]_vars

\* ------------------------------------------------ claims: overlapping cycles
\* C30: a refresh cycle does not raise because another cycle replaced the
\* Device mapping while it was iterating over its views.
C30_OverlapTolerated ==
    \A c \in AllCycleIds :
        ~(cyc[c].pc = "raised" /\ cyc[c].cause = "AttributeError")

\* --------------------------------------------- claims: handle and supervisor
\* C31: whenever the Account holds a task handle, the task behind the handle
\* is a supervisor that still runs; so a start() that finds a handle and does
\* nothing never leaves the Account without a supervisor.
C31_HandleImpliesLiveSupervisor ==
    update_task # None => Live(update_task)

\* ------------------------------------------- claims: pull against stream
\* C32: the cached Position of a device never goes backwards when the two
\* producers interleave: the response of an update_position() that was in
\* flight while the stream stored a Position of the same device does not
\* replace the cached record by one with a smaller (older) position id.
C32_PositionNeverGoesBack ==
    [][\A c \in AllCycleIds :
          (cyc[c].pc = "position" /\ cyc'[c].pc = "trip"
                /\ Head(cyc[c].todo) \in DOMAIN positions) =>
              positions'[Head(cyc[c].todo)].id >= positions[Head(cyc[c].todo)].id]_vars

\* ------------------------------------ claims: removal against mutation
\* C33: a device dropped by update_devices() is not put back by a set_stolen
\* or set_tracking_enabled that was in flight: the step in which put_device
\* returns for a view whose Device entry is gone leaves the mapping without
\* an entry for that id.
C33_NoReinsertion ==
    [][(op.pc = "put" /\ op'.pc = "returned" /\ ~HasDevice(devices, op.dev)) =>
          ~HasDevice(devices', op.dev)]_vars

\* C33, its case: no call of set_stolen or set_tracking_enabled ever waits
\* for put_device, since the clone of the cached record fails before the
\* call is issued; the step C33 is about does not exist.
C33_PutNeverPending ==
    op.pc # "put"

\* ------------------------------------------- claims: refresh of a lost view
\* C34: a pull refresh creates no orphan: update_position, update_trip and
\* update_subscription issue a transport call only for a view whose device
\* id is in the Device mapping at the time of the call (and so no response
\* is ever stored for a view that was called without a Device entry).
C34_NoFetchForAbsentDevice ==
    [][\A c \in AllCycleIds :
          cyc'[c].fetches > cyc[c].fetches =>
              HasDevice(devices', Head(cyc'[c].todo))]_vars

=============================================================================
